---- MODULE Spec2Model ----
(***************************************************************************)
(* Model of the axel Motorola 6800 assembler: the lexer (axel/lexer.py),   *)
(* the line parser (axel/parser.py), the symbol table (axel/symbol.py)     *)
(* and the two-pass driver (axel/assembler.py).                            *)
(*                                                                         *)
(* A source text is a sequence of one-character strings; cursors are       *)
(* 0-based offsets into it, as in the Python code.                         *)
(***************************************************************************)
EXTENDS Integers, Sequences, FiniteSets, TLC

VARIABLES
    lines,          \* the source as it was written: a sequence of word lists
    source,         \* Lexer._source / Assembler source: the rendered text
    phase,          \* "pass1", "ready", "taken", "assembled" or "failed"
    lexer,          \* the pass-1 Lexer object (Assembler.lexer)
    step,           \* what the last Lexer.__next__ of pass 1 read and returned
    symbol_table,   \* Assembler.symbol_table == Parser.symbols
    parser,         \* the Parser object: its _line counter and its own Lexer
    tokens,         \* the tokens pass 1 has returned so far, oldest first
    results,        \* what the calls of Parser.line() returned, oldest first
    call,           \* the last call made on the parser or assembler, and its outcome
    program,        \* Assembler.program, the BytesIO byte buffer
    registers,      \* the class Registers: the simulated register file
    translation,    \* the last call of a translator operation, and its outcome
    numbers         \* a fixed-width integer object, and the last operator applied to it

vars == <<lines, source, phase, lexer, step, tokens, symbol_table, parser,
          results, call, program, registers, translation, numbers>>

\* the state of the translator and of the fixed-width integers
machine == <<registers, translation, numbers>>

-----------------------------------------------------------------------------
(* Characters *)

CR  == "\r"
LF  == "\n"
TAB == "\t"
SPC == " "

None == "None"

Min(a, b) == IF a < b THEN a ELSE b
Max(a, b) == IF a > b THEN a ELSE b

\* s[lo:hi] of Python for 0 <= lo, 0 <= hi
Slice(s, lo, hi) == SubSeq(s, lo + 1, Min(hi, Len(s)))

\* s[lo:] of Python
From(s, lo) == SubSeq(s, lo + 1, Len(s))

-----------------------------------------------------------------------------
(* axel/tokens.py *)

\* the Mnemonic enumeration, in definition order: <<lexeme, member>>
Mnemonic ==
    << <<<<"A","B","A">>, "T_ABA">>, <<<<"A","D","C">>, "T_ADC">>, <<<<"A","D","D">>, "T_ADD">>,
      <<<<"S","B","A">>, "T_SBA">>, <<<<"S","B","C">>, "T_SBC">>, <<<<"S","U","B">>, "T_SUB">>,
      <<<<"A","N","D">>, "T_AND">>, <<<<"O","R","A">>, "T_ORA">>, <<<<"E","O","R">>, "T_EOR">>,
      <<<<"C","O","M">>, "T_COM">>, <<<<"N","E","G">>, "T_NEG">>, <<<<"A","S","L">>, "T_ASL">>,
      <<<<"A","S","R">>, "T_ASR">>, <<<<"L","S","R">>, "T_LSR">>, <<<<"R","O","L">>, "T_ROL">>,
      <<<<"R","O","R">>, "T_ROR">>, <<<<"B","C","C">>, "T_BCC">>, <<<<"B","C","S">>, "T_BCS">>,
      <<<<"B","E","Q">>, "T_BEQ">>, <<<<"B","N","E">>, "T_BNE">>, <<<<"B","G","E">>, "T_BGE">>,
      <<<<"B","G","T">>, "T_BGT">>, <<<<"B","L","E">>, "T_BLE">>, <<<<"B","L","T">>, "T_BLT">>,
      <<<<"B","H","I">>, "T_BHI">>, <<<<"B","L","S">>, "T_BLS">>, <<<<"B","M","I">>, "T_BMI">>,
      <<<<"B","P","L">>, "T_BPL">>, <<<<"B","V","C">>, "T_BVC">>, <<<<"B","V","S">>, "T_BVS">>,
      <<<<"B","R","A">>, "T_BRA">>, <<<<"B","S","R">>, "T_BSR">>, <<<<"J","M","P">>, "T_JMP">>,
      <<<<"J","S","R">>, "T_JSR">>, <<<<"R","T","I">>, "T_RTI">>, <<<<"R","T","S">>, "T_RTS">>,
      <<<<"L","D","A">>, "T_LDA">>, <<<<"L","D","S">>, "T_LDS">>, <<<<"L","D","X">>, "T_LDX">>,
      <<<<"S","T","A">>, "T_STA">>, <<<<"S","T","S">>, "T_STS">>, <<<<"S","T","X">>, "T_STX">>,
      <<<<"T","A","B">>, "T_TAB">>, <<<<"T","B","A">>, "T_TBA">>, <<<<"T","S","X">>, "T_TSX">>,
      <<<<"T","X","S">>, "T_TXS">>, <<<<"T","A","P">>, "T_TAP">>, <<<<"T","P","A">>, "T_TPA">>,
      <<<<"P","S","H">>, "T_PSH">>, <<<<"P","U","L">>, "T_PUL">>, <<<<"B","I","T">>, "T_BIT">>,
      <<<<"C","B","A">>, "T_CBA">>, <<<<"C","M","P">>, "T_CMP">>, <<<<"C","P","X">>, "T_CPX">>,
      <<<<"T","S","T">>, "T_TST">>, <<<<"D","E","C">>, "T_DEC">>, <<<<"I","N","C">>, "T_INC">>,
      <<<<"D","E","X">>, "T_DEX">>, <<<<"I","N","X">>, "T_INX">>, <<<<"D","E","S">>, "T_DES">>,
      <<<<"I","N","S">>, "T_INS">>, <<<<"C","L","C">>, "T_CLC">>, <<<<"C","L","I">>, "T_CLI">>,
      <<<<"C","L","V">>, "T_CLV">>, <<<<"S","E","C">>, "T_SEC">>, <<<<"S","E","I">>, "T_SEI">>,
      <<<<"S","E","V">>, "T_SEV">>, <<<<"C","L","R">>, "T_CLR">>, <<<<"D","A","A">>, "T_DAA">>,
      <<<<"N","O","P">>, "T_NOP">>, <<<<"S","W","I">>, "T_SWI">>, <<<<"W","A","I">>, "T_WAI">>>>

Branch_Mnemonics ==
    { "T_BCC", "T_BCS", "T_BEQ", "T_BGE", "T_BGT", "T_BHI", "T_BLE", "T_BLS",
      "T_BLT", "T_BMI", "T_BNE", "T_BPL", "T_BRA", "T_BSR", "T_BVC", "T_BVS" }

\* Register.__members__, keyed by the lexeme after "T_"
Register ==
    { <<<<"A">>, "T_A">>, <<<<"B">>, "T_B">>, <<<<"X">>, "T_X">>,
      <<<<"P","C">>, "T_PC">>, <<<<"S","P">>, "T_SP">>, <<<<"S","R">>, "T_SR">> }

MnemonicNames == { Mnemonic[i][1] : i \in DOMAIN Mnemonic }
MnemonicTokens == { Mnemonic[i][2] : i \in DOMAIN Mnemonic }

\* list(Tokens.Mnemonic) and list(Tokens.Register)
MnemonicList == [i \in DOMAIN Mnemonic |-> Mnemonic[i][2]]
RegisterList == <<"T_A", "T_B", "T_X", "T_PC", "T_SP", "T_SR">>
RegisterNames == { r[1] : r \in Register }
RegisterTokens == { r[2] : r \in Register }

MnemonicOf(name) == Mnemonic[CHOOSE i \in DOMAIN Mnemonic : Mnemonic[i][1] = name][2]
RegisterOf(name) == (CHOOSE r \in Register : r[1] = name)[2]

-----------------------------------------------------------------------------
(* axel/symbol.py *)

U_Int16(num) == num % 65536

\* a set that keeps the entry a label already has
SymbolSet_keep(table, label, addr, type, value) ==
    IF label \in DOMAIN table THEN table
    ELSE [n \in (DOMAIN table) \cup {label} |->
            IF n = label THEN [addr |-> addr, type |-> type, value |-> value]
            ELSE table[n]]

\* Symbol_Table.set: table[label] = (addr, type, value)
SymbolSet(table, label, addr, type, value) ==
    [n \in (DOMAIN table) \cup {label} |->
        IF n = label THEN [addr |-> addr, type |-> type, value |-> value]
        ELSE table[n]]

\* values of a table entry: text, U_Int16 or bytes
StrVal(s)   == [is |-> "str", v |-> s]
IntVal(n)   == [is |-> "U_Int16", v |-> n]
BytesVal(b) == [is |-> "bytes", v |-> b]

-----------------------------------------------------------------------------
(* bytes.fromhex, as the lexer and the parser use it *)

HexDigits ==
    { <<"0", 0>>, <<"1", 1>>, <<"2", 2>>, <<"3", 3>>, <<"4", 4>>, <<"5", 5>>,
      <<"6", 6>>, <<"7", 7>>, <<"8", 8>>, <<"9", 9>>,
      <<"A", 10>>, <<"B", 11>>, <<"C", 12>>, <<"D", 13>>, <<"E", 14>>, <<"F", 15>>,
      <<"a", 10>>, <<"b", 11>>, <<"c", 12>>, <<"d", 13>>, <<"e", 14>>, <<"f", 15>> }

IsHex(c) == \E h \in HexDigits : h[1] = c
HexVal(c) == (CHOOSE h \in HexDigits : h[1] = c)[2]

\* ok = FALSE is ValueError; ASCII whitespace is skipped between bytes only
RECURSIVE fromhex(_)
fromhex(s) ==
    IF s = <<>> THEN [ok |-> TRUE, bytes |-> <<>>]
    ELSE IF s[1] \in {SPC, TAB, LF, CR} THEN fromhex(Tail(s))
    ELSE IF Len(s) >= 2 /\ IsHex(s[1]) /\ IsHex(s[2])
         THEN LET rest == fromhex(From(s, 2))
              IN  [ok |-> rest.ok,
                   bytes |-> <<16 * HexVal(s[1]) + HexVal(s[2])>> \o rest.bytes]
         ELSE [ok |-> FALSE, bytes |-> <<>>]

-----------------------------------------------------------------------------
(* axel/lexer.py *)

NoData == <<None>>

EmptyTable == [n \in {} |-> 0]

\* Lexer.__init__
NewLexer ==
    [pointer |-> 0, at |-> 0, last |-> "T_UNKNOWN",
     yylex |-> [token |-> "T_UNKNOWN", data |-> NoData],
     table |-> EmptyTable, stack |-> <<>>]

\* self._source[i]; "" stands for IndexError
SourceAt(i) ==
    IF i >= 0 /\ i < Len(source) THEN source[i + 1]
    ELSE IF i < 0 /\ -i <= Len(source) THEN source[Len(source) + i + 1]
    ELSE ""

\* Lexer.pointer: the character under the cursor, '' at end of input
pointer(lx) == SourceAt(lx.pointer)

_inc(lx) == [lx EXCEPT !.pointer = @ + 1]

_dec(lx) == [lx EXCEPT !.pointer = @ - 1]

\* a retract that leaves the cursor where the scan ended
retract_stay(lx) == lx

retract(lx) == [lx EXCEPT !.pointer = lx.at]

_reset(lx) == [lx EXCEPT !.yylex = [token |-> "T_UNKNOWN", data |-> NoData]]

_set_token(lx, token, term) ==
    [lx EXCEPT !.last = token, !.yylex = [token |-> token, data |-> term]]

RECURSIVE _skip_to_next_line(_)
_skip_to_next_line(lx) ==
    IF pointer(lx) = "" THEN lx
    ELSE LET n == _inc(lx)
         IN  IF pointer(n) \in {LF, CR} THEN n ELSE _skip_to_next_line(n)

RECURSIVE _skip_whitespace_and_comments(_)
_skip_whitespace_and_comments(lx) ==
    LET a == IF pointer(lx) \in {TAB, SPC}
             THEN _skip_whitespace_and_comments(_inc(lx))
             ELSE lx
    IN  IF pointer(a) = ";"
        THEN _skip_whitespace_and_comments(_skip_to_next_line(a))
        ELSE a

\* the while loop of _read_term: delimiters are , TAB LF SPC (not CR)
RECURSIVE ReadRun(_, _)
ReadRun(lx, term) ==
    IF pointer(lx) # "" /\ pointer(lx) \notin {",", TAB, LF, SPC}
    THEN ReadRun(_inc(lx), Append(term, pointer(lx)))
    ELSE [lx |-> lx, term |-> term]

_read_term(lx) ==
    LET s == _skip_whitespace_and_comments(lx)
    IN  IF pointer(s) = CR THEN [lx |-> _inc(s), term |-> <<CR, LF>>]
        ELSE IF pointer(s) = LF THEN [lx |-> s, term |-> <<LF>>]
        ELSE IF pointer(s) = "," THEN [lx |-> s, term |-> <<",">>]
        ELSE ReadRun(s, <<>>)

\* the while loop of _peek_next: delimiters are , TAB CR LF SPC
RECURSIVE PeekRun(_, _)
PeekRun(index, term) ==
    IF index < Len(source) /\ SourceAt(index) \notin {",", TAB, CR, LF, SPC}
    THEN PeekRun(index + 1, Append(term, SourceAt(index)))
    ELSE term

\* the cursor is not restored after the skip
_peek_next(lx) ==
    LET s == _skip_whitespace_and_comments(lx)
    IN  [lx |-> s, term |-> PeekRun(s.pointer, <<>>)]

Found(lx, token) == [lx |-> lx, tok |-> token, exc |-> ""]

NotFound(lx) == [lx |-> lx, tok |-> None, exc |-> ""]

Raised(lx, exc) == [lx |-> lx, tok |-> None, exc |-> exc]

\* term[0] of an empty term raises IndexError
_eol_token(lx, term) ==
    IF Slice(term, 0, 2) = <<CR, LF>>
    THEN Found(_set_token(_inc(_inc(lx)), "T_EOL", <<CR, LF>>), "T_EOL")
    ELSE IF term = <<>> THEN Raised(lx, "IndexError")
    ELSE IF term[1] = LF
    THEN Found(_set_token(_inc(lx), "T_EOL", <<LF>>), "T_EOL")
    ELSE NotFound(lx)

_variable_token(lx, term) ==
    LET p == _peek_next(lx)
    IN  IF p.term = <<"=">>
        THEN Found(_set_token(
                     [p.lx EXCEPT !.stack = Append(@, <<"variable", term>>)],
                     "T_VARIABLE", term),
                   "T_VARIABLE")
        ELSE NotFound(p.lx)

_comma_token(lx, term) ==
    IF pointer(lx) = ","
    THEN Found(_set_token(_inc(lx), "T_COMMA", term), "T_COMMA")
    ELSE NotFound(lx)

_label_token(lx, term) ==
    LET peek_back == lx.pointer - (Len(term) + 1)
        previous_line == IF peek_back >= 0 THEN SourceAt(peek_back) ELSE LF
    IN  IF previous_line = LF \/ peek_back <= 0
        THEN LET p == _peek_next(lx)
             IN  IF p.term \in MnemonicNames
                    \/ (term # <<>> /\ term[Len(term)] = ":")
                 THEN Found(_set_token(
                              [p.lx EXCEPT !.stack = Append(@, <<"label", term>>)],
                              "T_LABEL", term),
                            "T_LABEL")
                 ELSE NotFound(p.lx)
        ELSE NotFound(lx)

StackTop(lx) == lx.stack[Len(lx.stack)]

Pop(lx) == [lx EXCEPT !.stack = SubSeq(@, 1, Len(@) - 1)]

_equal_token(lx, term) ==
    IF term = <<"=">>
    THEN IF lx.stack # <<>> /\ StackTop(lx)[1] = "variable"
         THEN LET assign == StackTop(lx)
                  addr == U_Int16(lx.at - Len(assign[2]) - 1)
                  p == _peek_next(Pop(lx))
                  set == [p.lx EXCEPT !.table =
                            SymbolSet(@, assign[2], addr, "variable", StrVal(p.term))]
              IN  Found(_set_token(set, "T_EQUAL", term), "T_EQUAL")
         ELSE Found(_set_token(lx, "T_EQUAL", term), "T_EQUAL")
    ELSE NotFound(lx)

_immediate_token(lx, term) ==
    IF Slice(term, 0, 1) = <<"#">> /\ Slice(term, 1, 2) = <<"$">>
    THEN LET hex == fromhex(From(term, 2))
         IN  IF hex.ok /\ Len(hex.bytes) = 1
             THEN Found(_set_token(lx, "T_IMM_UINT8", term), "T_IMM_UINT8")
             ELSE IF hex.ok /\ Len(hex.bytes) = 2
             THEN Found(_set_token(lx, "T_IMM_UINT16", term), "T_IMM_UINT16")
             ELSE NotFound(lx)
    ELSE NotFound(lx)

_direct_or_extended_token(lx, term) ==
    IF Slice(term, 0, 1) = <<"$">>
    THEN LET hex == fromhex(From(term, 1))
         IN  IF hex.ok /\ Len(hex.bytes) = 1
             THEN Found(_set_token(lx, "T_DIR_ADDR_UINT8", term), "T_DIR_ADDR_UINT8")
             ELSE IF hex.ok /\ Len(hex.bytes) = 2
             THEN Found(_set_token(lx, "T_EXT_ADDR_UINT16", term), "T_EXT_ADDR_UINT16")
             ELSE NotFound(lx)
    ELSE NotFound(lx)

\* the peek is made only when the register test passes
_displacement_token(lx, term) ==
    IF lx.last \in Branch_Mnemonics /\ From(term, 3) \notin RegisterNames
    THEN LET p == _peek_next(lx)
         IN  IF p.term # <<"=">>
             THEN Found(_set_token(p.lx, "T_DISP_ADDR_INT8", term), "T_DISP_ADDR_INT8")
             ELSE NotFound(p.lx)
    ELSE NotFound(lx)

\* the symbol-table entry of a pending label, made when a mnemonic is matched
SetLabel(lx) ==
    IF lx.stack # <<>> /\ StackTop(lx)[1] = "label"
    THEN LET assign == StackTop(lx)
             addr == U_Int16(lx.at - Len(assign[2]) - 1)
         IN  [Pop(lx) EXCEPT !.table =
                 SymbolSet(@, assign[2], addr, "label", IntVal(addr))]
    ELSE lx

_mnemonic_token(lx, term) ==
    IF Len(term) = 3 /\ term \in MnemonicNames
    THEN Found(SetLabel(_set_token(lx, MnemonicOf(term), term)), MnemonicOf(term))
    ELSE IF Len(term) = 4 /\ Slice(term, 0, 3) \in MnemonicNames
            /\ From(term, 3) \in RegisterNames
    THEN LET m == Slice(term, 0, 3)
         IN  Found(SetLabel(_set_token(_dec(lx), MnemonicOf(m), m)), MnemonicOf(m))
    ELSE NotFound(lx)

\* the look at the character after the cursor comes before the lexeme test
_register_token(lx, term) ==
    IF SourceAt(lx.pointer + 1) = "X"
    THEN Found(_set_token(_inc(lx), "T_X", <<"X">>), "T_X")
    ELSE IF term \in RegisterNames
    THEN Found(_set_token(lx, RegisterOf(term), term), RegisterOf(term))
    ELSE NotFound(lx)

\* token = token or f(term)
\* the value of F at x, with x evaluated once
Bind(x, F(_)) == CHOOSE v \in {F(y) : y \in {x}} : TRUE

Or(r, f(_, _), term) ==
    Bind(r, LAMBDA x : IF x.tok # None THEN x ELSE f(x.lx, term))

_get_token(lx, term) ==
    Bind(_eol_token(lx, term), LAMBDA r1 :
        IF r1.exc # "" THEN r1
        ELSE
        LET r2  == Or(r1, _register_token, term)
            r3  == Or(r2, _mnemonic_token, term)
            r4  == Or(r3, _displacement_token, term)
            r5  == Or(r4, _direct_or_extended_token, term)
            r6  == Or(r5, _comma_token, term)
            r7  == Or(r6, _equal_token, term)
            r8  == Or(r7, _immediate_token, term)
            r9  == Or(r8, _equal_token, term)
            r10 == Or(r9, _label_token, term)
        IN  Bind(Or(r10, _variable_token, term), LAMBDA r11 :
                IF r11.tok = None THEN Found(r11.lx, "T_UNKNOWN") ELSE r11))

\* Lexer.__next__: exc is "StopIteration" at end of input
__next__(lx) ==
    Bind(_read_term([lx EXCEPT !.at = lx.pointer]), LAMBDA r :
        IF r.term = <<>>
        THEN [lx |-> r.lx, tok |-> None, exc |-> "StopIteration", term |-> r.term]
        ELSE
        Bind(_get_token(_reset(r.lx), r.term), LAMBDA t :
            Bind(IF t.exc = "" /\ t.tok = "T_UNKNOWN"
                    /\ r.term \in DOMAIN t.lx.table
                    /\ t.lx.table[r.term].type = "variable"
                    /\ t.lx.table[r.term].value.is = "str"
                 THEN _get_token(t.lx, t.lx.table[r.term].value.v)
                 ELSE t,
                 LAMBDA u :
                    [lx |-> u.lx, tok |-> u.tok, exc |-> u.exc, term |-> r.term])))
-----------------------------------------------------------------------------
(* axel/parser.py *)
(* A parser state ps is [line, lexer, symbols]: Parser._line, Parser.lexer *)
(* and Parser.symbols.  Every operation yields the state it leaves behind,  *)
(* what it returned and, when it raised, the exception and its fields.      *)

Range(s) == { s[i] : i \in DOMAIN s }

NoErr == [near |-> <<>>, expected |-> <<>>, found |-> None, line |-> 0]

NoRet == [kind |-> "None", mnemonic |-> None, operands |-> <<>>]

Return(ps, ret) == [ps |-> ps, ret |-> ret, exc |-> "", err |-> NoErr]

Raise(ps, exc) == [ps |-> ps, ret |-> NoRet, exc |-> exc, err |-> NoErr]

RetFalse == [kind |-> "False", mnemonic |-> None, operands |-> <<>>]

RetTrue == [kind |-> "True", mnemonic |-> None, operands |-> <<>>]

\* Parser.__init__
NewParser == [line |-> 1, lexer |-> NewLexer]

\* source[location:location + 12].replace('\n', ' ')
Excerpt(location) ==
    LET s == Slice(source, location, location + 12)
    IN  [i \in DOMAIN s |-> IF s[i] = LF THEN SPC ELSE s[i]]

\* Parser.error: raises AssemblerParserError
error(ps, expected, found) ==
    [ps |-> ps, ret |-> NoRet, exc |-> "AssemblerParserError",
     err |-> [near |-> Excerpt(ps.lexer.at), expected |-> expected,
              found |-> found, line |-> ps.line]]

parse_immediate_value(value) ==
    IF Slice(value, 0, 1) = <<"#">> /\ Slice(value, 1, 2) = <<"$">>
    THEN fromhex(From(value, 2))
    ELSE fromhex(From(value, 1))

\* next(self.lexer)
LexerNext(ps) ==
    Bind(__next__(ps.lexer), LAMBDA r :
        [ps |-> [ps EXCEPT !.lexer = r.lx], tok |-> r.tok, exc |-> r.exc])

\* Parser.take: test is the list of expected tokens (a single token is <<token>>)
take(ps, test) ==
    Bind(LexerNext(ps), LAMBDA n :
        IF n.exc # "" THEN Raise(n.ps, n.exc)
        ELSE IF n.tok \notin Range(test)
        THEN error([n.ps EXCEPT !.lexer = retract(@)], test, n.tok)
        ELSE Return(n.ps, NoRet))

OperandTokens ==
    RegisterList \o <<"T_COMMA">> \o
    <<"T_IMM_UINT8", "T_IMM_UINT16", "T_DIR_ADDR_UINT8", "T_EXT_ADDR_UINT16",
      "T_DISP_ADDR_INT8">>

\* the loop of Parser.operands; stack is the deque built by appendleft
RECURSIVE OperandLoop(_, _)
OperandLoop(ps, stack) ==
    Bind(take(ps, OperandTokens), LAMBDA t :
        IF t.exc = "AssemblerParserError"
        THEN [ps |-> [t.ps EXCEPT !.lexer = retract(@)], stack |-> stack, exc |-> ""]
        ELSE IF t.exc = "StopIteration"
        THEN [ps |-> t.ps, stack |-> stack, exc |-> ""]
        ELSE IF t.exc # ""
        THEN [ps |-> t.ps, stack |-> stack, exc |-> t.exc]
        ELSE OperandLoop(t.ps, <<t.ps.lexer.yylex>> \o stack))

operands(ps) == OperandLoop(ps, <<>>)

\* Parser.instruction: (instruction['token'], self.operands())
instruction(ps, yylex) ==
    Bind(operands(ps), LAMBDA o :
        IF o.exc # "" THEN Raise(o.ps, o.exc)
        ELSE Return(o.ps, [kind |-> "instruction", mnemonic |-> yylex.token,
                           operands |-> o.stack]))

\* the entry of name is rewritten with the bytes of its text value
Finalize(ps, name, addr) ==
    Bind(parse_immediate_value(ps.symbols[name].value.v), LAMBDA bytes :
        IF ~bytes.ok THEN Raise(ps, "ValueError")
        ELSE Return([ps EXCEPT !.symbols =
                        SymbolSet(@, name, U_Int16(addr), "variable",
                                  BytesVal(bytes.bytes))],
                    NoRet))

\* Parser.variable
variable(ps, label) ==
    Bind(take(ps, <<"T_EQUAL">>), LAMBDA t1 :
        IF t1.exc # "" THEN t1
        ELSE
        Bind(take(t1.ps, <<"T_DIR_ADDR_UINT8", "T_EXT_ADDR_UINT16">>), LAMBDA t2 :
            IF t2.exc # "" THEN t2
            ELSE IF label.data = NoData \/ t2.ps.lexer.yylex.data = NoData
            THEN Return(t2.ps, NoRet)
            ELSE IF label.data \notin DOMAIN t2.ps.symbols
            THEN Raise(t2.ps, "KeyError")
            ELSE IF t2.ps.symbols[label.data].value.is = "str"
            THEN Finalize(t2.ps, label.data, ps.lexer.at)
            ELSE Raise(t2.ps, "AssemblerParserError")))

\* the loop of Parser.line that skips blank lines
RECURSIVE SkipBlankLines(_)
SkipBlankLines(ps) ==
    IF ps.lexer.yylex.token = "T_EOL"
    THEN Bind(LexerNext([ps EXCEPT !.line = @ + 1]), LAMBDA n :
            IF n.exc # "" THEN Raise(n.ps, n.exc) ELSE SkipBlankLines(n.ps))
    ELSE Return(ps, NoRet)

\* except StopIteration: return False
LineExit(r) == IF r.exc = "StopIteration" THEN Return(r.ps, RetFalse) ELSE r

\* take(T_EOL); self._line += 1; return ret
EndOfLine(ps, ret) ==
    Bind(take(ps, <<"T_EOL">>), LAMBDA t :
        IF t.exc # "" THEN LineExit(t)
        ELSE Return([t.ps EXCEPT !.line = @ + 1], ret))

\* instruction(lexer.yylex); take(T_EOL); self._line += 1; return line
InstructionLine(ps) ==
    Bind(instruction(ps, ps.lexer.yylex), LAMBDA i :
        IF i.exc # "" THEN LineExit(i) ELSE EndOfLine(i.ps, i.ret))

\* the branches of Parser.line on the first token of the line
Dispatch(ps, current) ==
    IF current = "T_LABEL"
    THEN Bind(take(ps, MnemonicList), LAMBDA t :
            IF t.exc # "" THEN LineExit(t) ELSE InstructionLine(t.ps))
    ELSE IF current = "T_VARIABLE"
    THEN Bind(variable(ps, ps.lexer.yylex), LAMBDA v :
            IF v.exc # "" THEN LineExit(v) ELSE EndOfLine(v.ps, RetTrue))
    ELSE IF current \in MnemonicTokens
    THEN InstructionLine(ps)
    ELSE error(ps, <<"T_LABEL", "T_VARIABLE", "T_MNEMONIC">>, current)

\* Parser.line
line(ps) ==
    Bind(LexerNext(ps), LAMBDA first :
        IF first.exc # "" THEN LineExit(Raise(first.ps, first.exc))
        ELSE Bind(SkipBlankLines(first.ps), LAMBDA b :
                IF b.exc # "" THEN LineExit(b)
                ELSE Dispatch(b.ps, b.ps.lexer.yylex.token)))
-----------------------------------------------------------------------------
(* axel/symbol.py: the fixed-width integers *)
(* A U_Int8 object is [raw, num]; an Int8 or U_Int16 object is its num.     *)
(* num & 255 of Python is num % 256 for every integer num, negative ones    *)
(* included.  A binary operator returns the object it leaves behind (self)  *)
(* and the int it returns (ret).                                            *)

\* U_Int8.__init__
U_Int8(num) == [raw |-> num, num |-> num % 256]

U_Int8__add__(self, of) ==
    [self |-> [self EXCEPT !.raw = @ + of], ret |-> (self.num + of) % 256]

U_Int8__iadd__(self, of) ==
    [raw |-> self.raw + of, num |-> (self.num + of) % 256]

U_Int8__sub__(self, of) ==
    [self |-> [self EXCEPT !.raw = @ - of], ret |-> (self.num - of) % 256]

U_Int8__isub__(self, of) ==
    [raw |-> self.raw - of, num |-> (self.num - of) % 256]

\* Int8._to_int8: mask7 & num == 128 tests bit 7 of num, and
\* (~num + 1) & mask2s is the low seven bits of -num
_to_int8(num) ==
    IF (num % 256) >= 128 THEN 0 - ((0 - num) % 128) ELSE num

\* Int8.__init__
Int8(num) == _to_int8(num)

Int8__add__(self, of) == [self |-> self, ret |-> _to_int8(self + of)]

Int8__iadd__(self, of) == _to_int8(self + of)

Int8__sub__(self, of) == [self |-> self, ret |-> _to_int8(self - of)]

Int8__isub__(self, of) == _to_int8(self - of)

\* an addition that returns the sum unmasked
U_Int16__add__wide(self, of) == [self |-> self, ret |-> self + of]

U_Int16__add__(self, of) == [self |-> self, ret |-> (self + of) % 65536]

U_Int16__iadd__(self, of) == (self + of) % 65536

U_Int16__sub__(self, of) == [self |-> self, ret |-> (self - of) % 65536]

U_Int16__isub__(self, of) == (self - of) % 65536

-----------------------------------------------------------------------------
(* axel/assembler.py: the register file; SR[1] .. SR[6] are the bits        *)
(* SR[0] .. SR[5] of the bitarray, in the order C, Z, S, O, I, AC.          *)
(* The attributes hold objects: shared says that AccA and AccB are bound to *)
(* one U_Int8 object, plain names the registers among X and SP that are     *)
(* bound to a Python int and no longer to a U_Int16.                        *)

Registers ==
    [AccA |-> U_Int8(0), AccB |-> U_Int8(0), X |-> U_Int16(0), SP |-> U_Int16(0),
     PC |-> U_Int16(0), SR |-> <<FALSE, FALSE, FALSE, FALSE, FALSE, FALSE>>,
     shared |-> FALSE, plain |-> {}]

\* AddressingMode, in definition order
AddressingMode == <<"ACC", "IMM", "DIR", "EXT", "IDX", "INH", "REL">>

\* no object of symbol.py under test
NoNumbers ==
    [class |-> None, made |-> 0, self |-> 0, before |-> 0, op |-> None, of |-> 0,
     ret |-> 0, ops |-> 0]
-----------------------------------------------------------------------------
(* axel/opcode.py *)
(* A translator operation takes (addr_mode, operands, registers) and yields *)
(* the register file it leaves behind, the bytes it returned (opcode) and,  *)
(* when it raised, the exception.  operands is the deque Parser.operands    *)
(* built: operands[1] is operands[0] of Python, operands[Len(operands)] is  *)
(* operands[-1].  A byte is an integer of 0 .. 255.                         *)

Emit(regs, opcode) == [registers |-> regs, opcode |-> opcode, exc |-> ""]

Fail(regs, exc) == [registers |-> regs, opcode |-> <<>>, exc |-> exc]

\* int(b.hex(), 16) of a bytes object b; int('', 16) is ValueError
RECURSIVE BytesToInt(_)
BytesToInt(b) ==
    IF b = <<>> THEN 0 ELSE 256 * BytesToInt(SubSeq(b, 1, Len(b) - 1)) + b[Len(b)]

\* int(Parser.parse_immediate_value(data).hex(), 16)
ImmediateOperand(data) ==
    Bind(parse_immediate_value(data), LAMBDA b :
        IF b.ok /\ b.bytes # <<>> THEN [ok |-> TRUE, n |-> BytesToInt(b.bytes)]
        ELSE [ok |-> FALSE, n |-> 0])

HexChars == <<"0", "1", "2", "3", "4", "5", "6", "7",
              "8", "9", "a", "b", "c", "d", "e", "f">>

\* hex(n)[2:] for n >= 0
RECURSIVE HexText(_)
HexText(n) ==
    IF n < 16 THEN <<HexChars[n + 1]>>
    ELSE HexText(n \div 16) \o <<HexChars[(n % 16) + 1]>>

\* len(bin(n)[2:]) for n >= 0
RECURSIVE BitLength(_)
BitLength(n) == IF n < 2 THEN 1 ELSE 1 + BitLength(n \div 2)

RECURSIVE Pow2(_)
Pow2(n) == IF n = 0 THEN 1 ELSE 2 * Pow2(n - 1)

\* int('0b' + status.to01()[0] + bin(operand)[2:], 2) when the carry is set
WithCarry(operand) == Pow2(BitLength(operand)) + operand

\* int(s, 16) of a text of hexadecimal digits; anything else is ValueError
RECURSIVE HexNumber(_)
HexNumber(s) ==
    IF s = <<>> THEN 0
    ELSE 16 * HexNumber(SubSeq(s, 1, Len(s) - 1)) + HexVal(s[Len(s)])

IntBase16(s) ==
    IF s # <<>> /\ \A i \in DOMAIN s : IsHex(s[i])
    THEN [ok |-> TRUE, n |-> HexNumber(s)]
    ELSE [ok |-> FALSE, n |-> 0]

\* operands[-1]['data'] == 'A'
LastIsA(ops) == ops[Len(ops)].data = <<"A">>

\* registers.<name> after an operator that changed its object in place: the
\* other accumulator shows the change when it is bound to the same object
Mutated(regs, name, object) ==
    IF regs.shared THEN [regs EXCEPT !.AccA = object, !.AccB = object]
    ELSE [regs EXCEPT ![name] = object]

\* Translate.aba
aba(addr_mode, ops, regs) ==
    IF addr_mode = "ACC"
    THEN Emit(Mutated(regs, "AccA", U_Int8__iadd__(regs.AccA, regs.AccB.num)), <<27>>)
    ELSE Emit(regs, <<27>>)

\* the tail of Translate.adc: return opcode + bytearray.fromhex(hex(data)[2:])
AdcReturn(regs, opcode, data) ==
    Bind(fromhex(HexText(data)), LAMBDA h :
        IF h.ok THEN Emit(regs, opcode \o h.bytes)
        ELSE Fail(regs, "ValueError"))

\* Translate.adc
adc(addr_mode, ops, regs) ==
    IF ops = <<>> THEN Fail(regs, "IndexError")
    ELSE IF ops[1].data = NoData THEN Fail(regs, "AssemblerParserError")
    ELSE IF addr_mode # "IMM" THEN AdcReturn(regs, <<>>, 0)
    ELSE Bind(ImmediateOperand(ops[1].data), LAMBDA operand :
            IF ~operand.ok THEN Fail(regs, "ValueError")
            ELSE Bind(IF regs.SR[1] THEN WithCarry(operand.n) ELSE operand.n,
                      LAMBDA data :
                        AdcReturn(Mutated(regs, "AccA", U_Int8__iadd__(regs.AccA, data)),
                                  IF LastIsA(ops) THEN <<137>> ELSE <<201>>,
                                  data)))

\* Translate.add
add(addr_mode, ops, regs) ==
    IF addr_mode = "IMM"
    THEN IF ops = <<>> THEN Fail(regs, "IndexError")
         ELSE Bind(ImmediateOperand(ops[1].data), LAMBDA operand :
                IF ~operand.ok THEN Fail(regs, "ValueError")
                ELSE IF LastIsA(ops)
                THEN Emit(Mutated(regs, "AccA", U_Int8__iadd__(regs.AccA, operand.n)),
                          <<139>>)
                ELSE Emit(Mutated(regs, "AccB", U_Int8__iadd__(regs.AccB, operand.n)),
                          <<203>>))
    ELSE IF addr_mode = "DIR"
    THEN IF ops = <<>> THEN Fail(regs, "IndexError")
         ELSE Emit(regs, IF LastIsA(ops) THEN <<155>> ELSE <<219>>)
    ELSE Emit(regs, <<>>)

\* the body the branch operations share:
\* offset = int(operands[0]['data'], 16) if operands else 0
\* return opcode + bytearray([offset])
Branch(opcode, ops, regs) ==
    IF ops = <<>> THEN Emit(regs, <<opcode, 0>>)
    ELSE Bind(IntBase16(ops[1].data), LAMBDA offset :
            IF offset.ok /\ offset.n <= 255
            THEN Emit(regs, <<opcode, offset.n>>)
            ELSE Fail(regs, "ValueError"))

bcc(addr_mode, ops, regs) == Branch(36, ops, regs)
bcs(addr_mode, ops, regs) == Branch(37, ops, regs)
beq(addr_mode, ops, regs) == Branch(39, ops, regs)
bge(addr_mode, ops, regs) == Branch(44, ops, regs)
bgt(addr_mode, ops, regs) == Branch(46, ops, regs)
bhi(addr_mode, ops, regs) == Branch(34, ops, regs)
ble(addr_mode, ops, regs) == Branch(47, ops, regs)
bls(addr_mode, ops, regs) == Branch(35, ops, regs)
blt(addr_mode, ops, regs) == Branch(45, ops, regs)
bmi(addr_mode, ops, regs) == Branch(43, ops, regs)
bne(addr_mode, ops, regs) == Branch(38, ops, regs)
bpl(addr_mode, ops, regs) == Branch(42, ops, regs)
bra(addr_mode, ops, regs) == Branch(32, ops, regs)
bvc(addr_mode, ops, regs) == Branch(40, ops, regs)
bvs(addr_mode, ops, regs) == Branch(41, ops, regs)

\* Translate.cpx
cpx(addr_mode, ops, regs) ==
    IF addr_mode = "IMM" THEN Emit(regs, <<140>>)
    ELSE IF addr_mode = "DIR" THEN Emit(regs, <<156>>)
    ELSE Emit(regs, <<>>)

\* Translate.jmp: AddressingMode has no member IND
jmp(addr_mode, ops, regs) ==
    IF addr_mode = "EXT" THEN Emit(regs, <<126>>)
    ELSE Fail(regs, "AttributeError")

\* Translate.jsr
jsr(addr_mode, ops, regs) ==
    IF addr_mode = "EXT" THEN Emit(regs, <<189>>)
    ELSE Fail(regs, "AttributeError")

\* lda, a function of the module: registers.AccA = operand stores a plain int
lda(addr_mode, ops, regs) ==
    IF addr_mode = "IMM"
    THEN IF ops = <<>> THEN Fail(regs, "IndexError")
         ELSE Bind(ImmediateOperand(ops[1].data), LAMBDA operand :
                IF ~operand.ok THEN Fail(regs, "ValueError")
                ELSE Emit([regs EXCEPT !.AccA = [raw |-> operand.n,
                                                      num |-> operand.n],
                                       !.shared = FALSE],
                          <<134>>))
    ELSE IF addr_mode = "DIR" THEN Emit(regs, <<150>>)
    ELSE IF addr_mode = "EXT" THEN Emit(regs, <<182>>)
    ELSE Emit(regs, <<>>)

\* sta, a function of the module
sta(addr_mode, ops, regs) ==
    IF addr_mode = "DIR" THEN Emit(regs, <<151>>)
    ELSE IF addr_mode = "EXT" THEN Emit(regs, <<183>>)
    ELSE Fail(regs, "AttributeError")

\* operands[0]['data'] == 'A' chooses the accumulator of an ACC operation
Operated(ops) == IF ops[1].data = <<"A">> THEN "AccA" ELSE "AccB"

\* Translate.and_: U_Int8 has no __iand__ and no __and__
and_(addr_mode, ops, regs) ==
    IF addr_mode = "IMM"
    THEN IF ops = <<>> THEN Fail(regs, "IndexError")
         ELSE IF ~ImmediateOperand(ops[1].data).ok THEN Fail(regs, "ValueError")
         ELSE Fail(regs, "TypeError")
    ELSE Emit(regs, <<>>)

\* Translate.asl: U_Int8 has no __ilshift__ and no __lshift__
asl(addr_mode, ops, regs) ==
    IF addr_mode = "ACC"
    THEN IF ops = <<>> THEN Fail(regs, "IndexError")
         ELSE Fail(regs, "TypeError")
    ELSE Emit(regs, <<>>)

\* Translate.clc
clc(addr_mode, ops, regs) == Emit([regs EXCEPT !.SR[1] = FALSE], <<12>>)

\* Translate.cli
cli(addr_mode, ops, regs) == Emit([regs EXCEPT !.SR[5] = FALSE], <<14>>)

\* Translate.clr: registers.AccA = 0 binds the accumulator to a new object
clr(addr_mode, ops, regs) ==
    IF addr_mode = "ACC"
    THEN IF ops = <<>> THEN Fail(regs, "IndexError")
         ELSE Emit([regs EXCEPT ![Operated(ops)] = [raw |-> 0, num |-> 0],
                                !.shared = FALSE],
                   IF Operated(ops) = "AccA" THEN <<79>> ELSE <<95>>)
    ELSE Emit(regs, <<>>)

\* Translate.clv: registers.SR[1] = False
clv(addr_mode, ops, regs) == Emit([regs EXCEPT !.SR[2] = FALSE], <<10>>)

\* Translate.cmp
cmp(addr_mode, ops, regs) ==
    IF addr_mode = "IMM"
    THEN IF ops = <<>> THEN Fail(regs, "IndexError")
         ELSE Emit(regs, IF ops[Len(ops)].data = <<"A">> THEN <<129>> ELSE <<193>>)
    ELSE Emit(regs, <<>>)

\* Translate.dec
dec(addr_mode, ops, regs) ==
    IF addr_mode = "ACC"
    THEN IF ops = <<>> THEN Fail(regs, "IndexError")
         ELSE Emit(Mutated(regs, Operated(ops),
                           U_Int8__isub__(regs[Operated(ops)], 1)),
                   IF Operated(ops) = "AccA" THEN <<74>> ELSE <<90>>)
    ELSE Emit(regs, <<>>)

\* registers.<name> += of for X and SP: a U_Int16 wraps in place, a Python
\* int does not wrap
Stepped(regs, name, of) ==
    IF name \in regs.plain THEN [regs EXCEPT ![name] = @ + of]
    ELSE [regs EXCEPT ![name] = U_Int16__iadd__(@, of)]

\* Translate.des
des(addr_mode, ops, regs) == Emit(Stepped(regs, "SP", -1), <<52>>)

\* Translate.dex
dex(addr_mode, ops, regs) == Emit(Stepped(regs, "X", -1), <<9>>)

\* Translate.inc
inc(addr_mode, ops, regs) ==
    IF addr_mode = "ACC"
    THEN IF ops = <<>> THEN Fail(regs, "IndexError")
         ELSE Emit(Mutated(regs, Operated(ops),
                           U_Int8__iadd__(regs[Operated(ops)], 1)),
                   IF Operated(ops) = "AccA" THEN <<76>> ELSE <<92>>)
    ELSE Emit(regs, <<>>)

\* Translate.ins
ins(addr_mode, ops, regs) == Emit(Stepped(regs, "SP", 1), <<49>>)

\* Translate.inx
inx(addr_mode, ops, regs) == Emit(Stepped(regs, "X", 1), <<8>>)

\* sec, a function of the module
sec(addr_mode, ops, regs) == Emit([regs EXCEPT !.SR[1] = TRUE], <<13>>)

\* sei, a function of the module
sei(addr_mode, ops, regs) == Emit([regs EXCEPT !.SR[5] = TRUE], <<15>>)

\* sev, a function of the module: registers.SR[1] = True
sev(addr_mode, ops, regs) == Emit([regs EXCEPT !.SR[2] = TRUE], <<11>>)

\* tab, a function of the module: AccB is bound to the object of AccA
tab(addr_mode, ops, regs) ==
    Emit([regs EXCEPT !.AccB = regs.AccA, !.shared = TRUE], <<22>>)

\* tba, a function of the module: AccA is bound to the object of AccB
tba(addr_mode, ops, regs) ==
    Emit([regs EXCEPT !.AccA = regs.AccB, !.shared = TRUE], <<23>>)

\* registers.<name> + of for X and SP: U_Int16.__add__ returns a masked
\* Python int, the sum of a Python int is the exact one
Offset(regs, name, of) ==
    IF name \in regs.plain THEN regs[name] + of
    ELSE U_Int16__add__(regs[name], of).ret

\* tsx, a function of the module: X is bound to a Python int
tsx(addr_mode, ops, regs) ==
    Emit([regs EXCEPT !.X = Offset(regs, "SP", 1), !.plain = @ \cup {"X"}],
         <<48>>)

\* txs, a function of the module: SP is bound to a Python int
txs(addr_mode, ops, regs) ==
    Emit([regs EXCEPT !.SP = Offset(regs, "X", -1), !.plain = @ \cup {"SP"}],
         <<53>>)

-----------------------------------------------------------------------------
(* axel/data.py: the flag-update wrapper, as section 4.5 of the             *)
(* specification describes it                                               *)

\* the accumulator an instruction writes: the one its trailing register
\* operand names, AccA otherwise
Destination(ops) ==
    IF ops # <<>> /\ ops[Len(ops)].data = <<"B">> THEN "AccB"
    ELSE "AccA"

\* what the wrapper does once the wrapped operation has returned r, on the
\* register file `before` the call saw: a raised exception passes through
processing(before, ops, r) ==
    IF r.exc # "" THEN r
    ELSE LET was == before[Destination(ops)]
             dest == r.registers[Destination(ops)]
             operand == dest.raw - was.raw
         IN  [r EXCEPT !.registers =
                [@ EXCEPT
                   !.SR = << dest.raw > 255 \/ dest.raw < 0,
                             dest.num = 0,
                             dest.num >= 128,
                             /\ (was.num >= 128) = ((operand % 256) >= 128)
                             /\ (dest.num >= 128) # (was.num >= 128),
                             before.SR[5],
                             (was.num % 16) + (operand % 16) > 15 >>,
                   !.AccA = U_Int8(r.registers.AccA.num),
                   !.AccB = U_Int8(r.registers.AccB.num)]]

\* the operations the class Translate holds (the metaclass Processor wraps
\* each of them) and the functions of the module; a mnemonic the model does
\* not translate yields no bytes
Unwrapped(mnemonic, addr_mode, ops, regs) ==
    CASE mnemonic = "T_ABA" -> aba(addr_mode, ops, regs)
      [] mnemonic = "T_ADC" -> adc(addr_mode, ops, regs)
      [] mnemonic = "T_ADD" -> add(addr_mode, ops, regs)
      [] mnemonic = "T_BCC" -> bcc(addr_mode, ops, regs)
      [] mnemonic = "T_BCS" -> bcs(addr_mode, ops, regs)
      [] mnemonic = "T_BEQ" -> beq(addr_mode, ops, regs)
      [] mnemonic = "T_BGE" -> bge(addr_mode, ops, regs)
      [] mnemonic = "T_BGT" -> bgt(addr_mode, ops, regs)
      [] mnemonic = "T_BHI" -> bhi(addr_mode, ops, regs)
      [] mnemonic = "T_BLE" -> ble(addr_mode, ops, regs)
      [] mnemonic = "T_BLS" -> bls(addr_mode, ops, regs)
      [] mnemonic = "T_BLT" -> blt(addr_mode, ops, regs)
      [] mnemonic = "T_BMI" -> bmi(addr_mode, ops, regs)
      [] mnemonic = "T_BNE" -> bne(addr_mode, ops, regs)
      [] mnemonic = "T_BPL" -> bpl(addr_mode, ops, regs)
      [] mnemonic = "T_BRA" -> bra(addr_mode, ops, regs)
      [] mnemonic = "T_BVC" -> bvc(addr_mode, ops, regs)
      [] mnemonic = "T_BVS" -> bvs(addr_mode, ops, regs)
      [] mnemonic = "T_CPX" -> cpx(addr_mode, ops, regs)
      [] mnemonic = "T_JMP" -> jmp(addr_mode, ops, regs)
      [] mnemonic = "T_JSR" -> jsr(addr_mode, ops, regs)
      [] mnemonic = "T_LDA" -> lda(addr_mode, ops, regs)
      [] mnemonic = "T_STA" -> sta(addr_mode, ops, regs)
      [] mnemonic = "T_AND" -> and_(addr_mode, ops, regs)
      [] mnemonic = "T_ASL" -> asl(addr_mode, ops, regs)
      [] mnemonic = "T_CLC" -> clc(addr_mode, ops, regs)
      [] mnemonic = "T_CLI" -> cli(addr_mode, ops, regs)
      [] mnemonic = "T_CLR" -> clr(addr_mode, ops, regs)
      [] mnemonic = "T_CLV" -> clv(addr_mode, ops, regs)
      [] mnemonic = "T_CMP" -> cmp(addr_mode, ops, regs)
      [] mnemonic = "T_DEC" -> dec(addr_mode, ops, regs)
      [] mnemonic = "T_DES" -> des(addr_mode, ops, regs)
      [] mnemonic = "T_DEX" -> dex(addr_mode, ops, regs)
      [] mnemonic = "T_INC" -> inc(addr_mode, ops, regs)
      [] mnemonic = "T_INS" -> ins(addr_mode, ops, regs)
      [] mnemonic = "T_INX" -> inx(addr_mode, ops, regs)
      [] mnemonic = "T_SEC" -> sec(addr_mode, ops, regs)
      [] mnemonic = "T_SEI" -> sei(addr_mode, ops, regs)
      [] mnemonic = "T_SEV" -> sev(addr_mode, ops, regs)
      [] mnemonic = "T_TAB" -> tab(addr_mode, ops, regs)
      [] mnemonic = "T_TBA" -> tba(addr_mode, ops, regs)
      [] mnemonic = "T_TSX" -> tsx(addr_mode, ops, regs)
      [] mnemonic = "T_TXS" -> txs(addr_mode, ops, regs)
      [] OTHER -> Emit(regs, <<>>)

\* the mnemonics whose operation is a function of the module, not of Translate
ModuleFunctions ==
    {"T_LDA", "T_STA", "T_SEC", "T_SEI", "T_SEV", "T_TAB", "T_TBA", "T_TSX",
     "T_TXS"}

\* Translate.<mnemonic>(addr_mode, operands, registers)
Translate(mnemonic, addr_mode, ops, regs) ==
    Bind(Unwrapped(mnemonic, addr_mode, ops, regs), LAMBDA r :
        IF mnemonic \in ModuleFunctions THEN r
        ELSE processing(regs, ops, r))

\* no translator call yet
NoTranslation ==
    [mnemonic |-> None, addr_mode |-> None, ops |-> <<>>, opcode |-> <<>>,
     exc |-> "", before |-> Registers, body |-> Registers, earlier |-> {},
     calls |-> 0]
-----------------------------------------------------------------------------
(* Bounds *)

MaxLines == 2       \* lines of a source text
MaxGap == 2         \* spaces between two words of a line
MaxTokens == 12     \* tokens of pass 1 that are recorded
MaxCalls == 4       \* calls of Parser.line() on one parser

-----------------------------------------------------------------------------
(* Source texts *)

\* the words of a line, as written
LineForms ==
    { <<>>,
      << <<";","c">> >>,
      << <<"A","B","A">> >>,
      << <<"A","D","D">>, <<"B">>, <<"#","$","1","0">> >>,
      << <<"A","D","D">>, <<"A">>, <<"$","1","0",",","X">> >>,
      << <<"L","D","A","A">>, <<"#","$","1","0">> >>,
      << <<"L","D","A","A">>, <<"X">> >>,
      << <<"B","R","A">>, <<"L">> >>,
      << <<"L">>, <<"A","B","A">> >>,
      << <<"L",":">>, <<"A","B","A">> >>,
      << <<"L">>, <<"L","D","A","A">>, <<"#","$","1","0">> >>,
      << <<"V">>, <<"=">>, <<"$","1","0">> >>,
      << <<"W">>, <<"=">>, <<"$","1","2","F","E">> >>,
      << <<"V">>, <<"=">>, <<"L","D","A","A">> >>,
      << <<"V">>, <<"=">> >>,
      << <<"V">> >>,
      << <<"F","A","I","L">> >> }

Spaces(n) == [i \in 1..n |-> SPC]

\* how a source is laid out: the gap between two words, the line terminator,
\* and whether the last line is cut off before its terminator
Layouts ==
    { [gap |-> Spaces(n), eol |-> <<LF>>, cut |-> FALSE] : n \in 1..MaxGap }
    \cup { [gap |-> Spaces(1), eol |-> <<CR, LF>>, cut |-> FALSE],
           [gap |-> Spaces(1), eol |-> <<LF>>, cut |-> TRUE] }

RECURSIVE Join(_, _)
Join(words, gap) ==
    IF words = <<>> THEN <<>>
    ELSE IF Len(words) = 1 THEN words[1]
    ELSE words[1] \o gap \o Join(Tail(words), gap)

RECURSIVE Render(_)
Render(ls) ==
    IF ls = <<>> THEN <<>>
    ELSE Join(ls[1].words, ls[1].gap) \o ls[1].eol \o Render(Tail(ls))

\* the offset of the first character of line i
LineStart(ls, i) == Len(Render(SubSeq(ls, 1, i - 1)))

-----------------------------------------------------------------------------
(* axel/assembler.py and the callers of the parser *)

NoStep == [term |-> <<>>, tok |-> None, exc |-> "", from |-> 0]

NoCall == [op |-> "none", test |-> <<>>, ret |-> NoRet, exc |-> "", err |-> NoErr,
           bytes |-> <<>>]

Init ==
    /\ \E n \in 0..MaxLines :
         \E ws \in [1..n -> LineForms], lay \in Layouts :
             lines = [i \in 1..n |->
                        [words |-> ws[i], gap |-> lay.gap,
                         eol |-> IF i = n /\ lay.cut THEN <<>> ELSE lay.eol]]
    /\ source = Render(lines)
    /\ phase = "pass1"
    /\ lexer = NewLexer
    /\ step = NoStep
    /\ tokens = <<>>
    /\ symbol_table = EmptyTable
    /\ parser = NewParser
    /\ results = <<>>
    /\ call = NoCall
    /\ program = <<>>
    /\ registers = Registers
    /\ translation = NoTranslation
    /\ numbers = NoNumbers

\* Assembler.__init__ / _construct_symbol_table: one iteration of
\* "for token in self.lexer"; when the lexer is exhausted the constructor
\* goes on to build the parser and the program buffer
LexNext ==
    /\ phase = "pass1"
    /\ \E r \in {__next__(lexer)},
          start \in {_skip_whitespace_and_comments(lexer).pointer} :
           /\ lexer' = r.lx
           /\ step' = [term |-> r.term, tok |-> r.tok, exc |-> r.exc,
                       from |-> lexer.pointer]
           /\ tokens' = IF r.exc = "" /\ Len(tokens) < MaxTokens
                        THEN Append(tokens, [tok |-> r.tok, term |-> r.term,
                                             start |-> start, end |-> r.lx.pointer])
                        ELSE tokens
           /\ phase' = IF r.exc = "" THEN "pass1"
                       ELSE IF r.exc = "StopIteration" THEN "ready"
                       ELSE "failed"
           /\ symbol_table' = IF r.exc = "StopIteration" THEN r.lx.table
                              ELSE symbol_table
    /\ UNCHANGED <<lines, source, parser, results, call, program, machine>>

PS == [line |-> parser.line, lexer |-> parser.lexer, symbols |-> symbol_table]

\* a call of Parser.line() by the driver of pass 2
ParserLine ==
    /\ phase = "ready"
    /\ Len(results) < MaxCalls
    /\ \E r \in {line(PS)} :
           /\ parser' = [line |-> r.ps.line, lexer |-> r.ps.lexer]
           /\ symbol_table' = r.ps.symbols
           /\ results' = IF r.exc = "" THEN Append(results, r.ret) ELSE results
           /\ call' = [NoCall EXCEPT !.op = "line", !.ret = r.ret,
                                     !.exc = r.exc, !.err = r.err]
           /\ phase' = IF r.exc = "" THEN "ready" ELSE "failed"
    /\ UNCHANGED <<lines, source, lexer, step, tokens, program, machine>>

\* the token lists the callers of take() pass
TakeTests ==
    { <<"T_ADD">>, <<"T_EOL">>, <<"T_DIR_ADDR_UINT8", "T_EXT_ADDR_UINT16">>,
      MnemonicList, OperandTokens }

\* a direct call of Parser.take(test), on a parser that line() has not driven
ParserTake ==
    /\ phase \in {"ready", "taken"}
    /\ results = <<>>
    /\ \E test \in TakeTests :
         \E r \in {take(PS, test)} :
             /\ parser' = [line |-> r.ps.line, lexer |-> r.ps.lexer]
             /\ call' = [NoCall EXCEPT !.op = "take", !.test = test,
                                       !.exc = r.exc, !.err = r.err]
             /\ phase' = IF r.exc = "" THEN "taken" ELSE "failed"
    /\ UNCHANGED <<lines, source, lexer, step, tokens, symbol_table, results, program,
                   machine>>

\* Assembler.assemble: return self.program
Assemble ==
    /\ phase = "ready"
    /\ call' = [NoCall EXCEPT !.op = "assemble", !.bytes = program]
    /\ phase' = "assembled"
    /\ UNCHANGED <<lines, source, lexer, step, tokens, symbol_table, parser,
                   results, program, machine>>

Next == LexNext \/ ParserLine \/ ParserTake \/ Assemble

Spec == Init /\ [][Next]_vars

\* the for loop of pass 1 keeps asking for the next token
FairSpec == Init /\ [][LexNext]_vars /\ WF_vars(LexNext)

-----------------------------------------------------------------------------
(* How a line of the source reads, by the source-language surface *)

Indented(words) == words # <<>> /\ words[1] = <<>>

Body(words) == IF Indented(words) THEN Tail(words) ELSE words

\* a mnemonic with the accumulator appended, as LDAA or STAB
IsAppended(w) ==
    Len(w) = 4 /\ Slice(w, 0, 3) \in MnemonicNames /\ From(w, 3) \in {<<"A">>, <<"B">>}

IsMnemonicWord(w) == w \in MnemonicNames \/ IsAppended(w)

\* $ followed by n hex digits
IsHexLiteral(w, n) == Len(w) = n + 1 /\ w[1] = "$" /\ \A i \in 2..(n + 1) : IsHex(w[i])

IsName(w) ==
    w # <<>> /\ ~IsMnemonicWord(w) /\ w \notin RegisterNames
    /\ \A i \in DOMAIN w : w[i] \notin {"$", "#", "=", ",", ";"}

IsBlankLine(words) == Body(words) = <<>> \/ Body(words)[1][1] = ";"

\* NAME = $HH or NAME = $HHHH
IsVariableDef(words) ==
    /\ Len(words) = 3 /\ IsName(words[1]) /\ words[2] = <<"=">>
    /\ (IsHexLiteral(words[3], 2) \/ IsHexLiteral(words[3], 4))

\* an identifier at column 0 followed by an instruction
IsLabelled(words) == Len(words) >= 2 /\ IsName(words[1]) /\ IsMnemonicWord(words[2])

IsInstructionLine(words) ==
    IsLabelled(words) \/ (Body(words) # <<>> /\ IsMnemonicWord(Body(words)[1]))

\* the mnemonic word and the operand words of an instruction line
InstructionWords(words) == IF IsLabelled(words) THEN Tail(words) ELSE Body(words)

MnemonicOfWord(w) == MnemonicOf(Slice(w, 0, 3))

IsOperandWord(w) ==
    \/ w \in {<<"A">>, <<"B">>, <<"X">>}
    \/ IsHexLiteral(w, 2) \/ IsHexLiteral(w, 4)
    \/ (Len(w) > 1 /\ w[1] = "#" /\ (IsHexLiteral(Tail(w), 2) \/ IsHexLiteral(Tail(w), 4)))
    \/ (Len(w) = 5 /\ IsHexLiteral(Slice(w, 0, 3), 2) /\ From(w, 3) = <<",", "X">>)

\* the token kinds an operand word stands for, in source order
OperandKinds(w) ==
    IF w \in RegisterNames THEN <<RegisterOf(w)>>
    ELSE IF IsHexLiteral(w, 2) THEN <<"T_DIR_ADDR_UINT8">>
    ELSE IF IsHexLiteral(w, 4) THEN <<"T_EXT_ADDR_UINT16">>
    ELSE IF w[1] = "#" /\ IsHexLiteral(Tail(w), 2) THEN <<"T_IMM_UINT8">>
    ELSE IF w[1] = "#" THEN <<"T_IMM_UINT16">>
    ELSE <<"T_DIR_ADDR_UINT8", "T_COMMA", "T_X">>

IsBranchLine(ws) == MnemonicOfWord(ws[1]) \in Branch_Mnemonics

\* the line is well formed: blank, a comment, a variable definition or an
\* instruction whose operands are of the documented forms
IsGrammatical(words) ==
    \/ IsBlankLine(words)
    \/ IsVariableDef(words)
    \/ /\ IsInstructionLine(words)
       /\ LET ws == InstructionWords(words)
          IN  IF IsBranchLine(ws)
              THEN Len(ws) = 2 /\ (IsName(ws[2]) \/ IsHexLiteral(ws[2], 2))
              ELSE \A i \in 2..Len(ws) : IsOperandWord(ws[i])

RECURSIVE Flatten(_)
Flatten(ss) == IF ss = <<>> THEN <<>> ELSE ss[1] \o Flatten(Tail(ss))

Reverse(s) == [i \in DOMAIN s |-> s[Len(s) + 1 - i]]

\* the operand token kinds of an instruction line, in source order
LineOperandKinds(words) ==
    LET ws == InstructionWords(words)
        reg == IF IsAppended(ws[1]) THEN <<RegisterOf(From(ws[1], 3))>> ELSE <<>>
    IN  IF IsBranchLine(ws) THEN <<"T_DISP_ADDR_INT8">>
        ELSE reg \o Flatten([i \in 1..(Len(ws) - 1) |-> OperandKinds(ws[i + 1])])

\* what line() is to return for a line that is not blank
ExpectedResult(words) ==
    IF IsVariableDef(words)
    THEN [kind |-> "True", mnemonic |-> None, operands |-> <<>>]
    ELSE [kind |-> "instruction",
          mnemonic |-> MnemonicOfWord(InstructionWords(words)[1]),
          operands |-> Reverse(LineOperandKinds(words))]

RECURSIVE ExpectedResults(_)
ExpectedResults(ls) ==
    IF ls = <<>> THEN <<>>
    ELSE IF IsBlankLine(ls[1].words) THEN ExpectedResults(Tail(ls))
    ELSE <<ExpectedResult(ls[1].words)>> \o ExpectedResults(Tail(ls))

\* a result of line() with its operands reduced to their token kinds
Shape(r) ==
    [kind |-> r.kind, mnemonic |-> r.mnemonic,
     operands |-> [i \in DOMAIN r.operands |-> r.operands[i].token]]

AllLF == \A i \in DOMAIN lines : lines[i].eol = <<LF>>

AllGrammatical == \A i \in DOMAIN lines : IsGrammatical(lines[i].words)

\* the line defines its first word: NAME = value, or a label and an instruction
IsDefinition(words) ==
    \/ IsLabelled(words)
    \/ (Len(words) = 3 /\ IsName(words[1]) /\ words[2] = <<"=">>)

\* the lines that have name as their first word and an = or an instruction after it
Definers(name) ==
    { i \in DOMAIN lines :
        /\ Len(lines[i].words) >= 2 /\ lines[i].words[1] = name
        /\ (IsLabelled(lines[i].words) \/ lines[i].words[2] = <<"=">>) }

\* no name is defined by two lines
DefinedOnce ==
    \A i \in DOMAIN lines :
        IsDefinition(lines[i].words) => Definers(lines[i].words[1]) = {i}

-----------------------------------------------------------------------------
(* Claims *)

\* C1: assemble() returns the machine code of the source: the byte 1B for
\* the source ABA, and a non-empty stream whenever the source has an
\* instruction line.
C1_AssembleReturnsProgram ==
    call.op = "assemble" =>
        /\ (\E i \in DOMAIN lines : IsInstructionLine(lines[i].words))
              => call.bytes # <<>>
        /\ source = <<"A", "B", "A", LF>> => call.bytes = <<27>>

\* C2: on a source whose lines are all LF-terminated and grammatical (and
\* define no name twice), the
\* calls of line() raise nothing and return, in source order, True for each
\* variable definition and (mnemonic, operand tokens in reverse order) for
\* each instruction, nothing for blank and comment lines, and False from
\* the end of the input on.
C2_LinePerSourceLine ==
    (phase \in {"ready", "failed"} /\ call.op \in {"none", "line"}
        /\ AllLF /\ AllGrammatical /\ DefinedOnce)
    => /\ call.exc = ""
       /\ \A k \in DOMAIN results :
            LET expected == ExpectedResults(lines)
            IN  Shape(results[k]) =
                    IF k <= Len(expected) THEN expected[k] ELSE RetFalse

\* C3: after pass 1 every label and every variable that the source defines
\* (once) is in the symbol table, at the offset of the first character of
\* its name.
C3_SymbolOffsets ==
    phase = "ready" =>
        \A i \in DOMAIN lines :
            (IsDefinition(lines[i].words) /\ Definers(lines[i].words[1]) = {i})
            => /\ lines[i].words[1] \in DOMAIN lexer.table
               /\ lexer.table[lines[i].words[1]].addr = LineStart(lines, i)

\* the bytes of the literal $HH or $HHHH
HexBytes(lit) ==
    [i \in 1..((Len(lit) - 1) \div 2) |->
        16 * HexVal(lit[2 * i]) + HexVal(lit[2 * i + 1])]

\* every line with an = is NAME = $HH or NAME = $HHHH, and no name is defined twice
VariableDefsWellFormed ==
    \A i \in DOMAIN lines :
        (\E j \in DOMAIN lines[i].words : lines[i].words[j] = <<"=">>)
        => (IsVariableDef(lines[i].words) /\ Definers(lines[i].words[1]) = {i})

\* line() alone has driven the parser, and its last call returned False
AtEndOfInput ==
    phase = "ready" /\ results # <<>> /\ results[Len(results)].kind = "False"

\* C4: once line() has driven the parser to the end of a source whose
\* variable definitions are NAME = $HH or NAME = $HHHH, each name defined
\* once, every variable is in the symbol table with kind 'variable' and the
\* bytes of its literal as value, and no variable value is still text.
C4_VariablesFinalized ==
    (AtEndOfInput /\ VariableDefsWellFormed)
    => /\ \A i \in DOMAIN lines :
            IsVariableDef(lines[i].words)
            => /\ lines[i].words[1] \in DOMAIN symbol_table
               /\ symbol_table[lines[i].words[1]].type = "variable"
               /\ symbol_table[lines[i].words[1]].value
                    = BytesVal(HexBytes(lines[i].words[3]))
       /\ \A n \in DOMAIN symbol_table :
            symbol_table[n].type = "variable" => symbol_table[n].value.is = "bytes"

\* the parser has finalized V = $10 and W = $12FE
C4_Witness ==
    /\ AtEndOfInput /\ VariableDefsWellFormed
    /\ DOMAIN symbol_table = {<<"V">>, <<"W">>}
    /\ symbol_table[<<"V">>].value = BytesVal(<<16>>)
    /\ symbol_table[<<"W">>].value = BytesVal(<<18, 254>>)

\* token k of pass 1 was read from a lexeme $HH that the source continues with ,X
IsIndexedAt(k) ==
    /\ IsHexLiteral(tokens[k].term, 2)
    /\ SourceAt(tokens[k].start + 3) = "," /\ SourceAt(tokens[k].start + 4) = "X"

\* C5: for an operand written $HH,X the lexer emits T_DIR_ADDR_UINT8, then
\* T_COMMA, then the register T_X.
C5_IndexedOperandTokens ==
    \A k \in DOMAIN tokens :
        IsIndexedAt(k)
        => /\ tokens[k].tok = "T_DIR_ADDR_UINT8"
           /\ (k + 1 \in DOMAIN tokens => tokens[k + 1].tok = "T_COMMA")
           /\ (k + 2 \in DOMAIN tokens => tokens[k + 2].tok = "T_X")

\* C6: a lexeme MR, M a mnemonic and R one of A and B, is emitted as the
\* mnemonic M with the cursor left one character before the end of the
\* lexeme, and the next token is the register R.
C6_AppendedRegister ==
    \A k \in DOMAIN tokens :
        IsAppended(tokens[k].term)
        => /\ tokens[k].tok = MnemonicOfWord(tokens[k].term)
           /\ tokens[k].end = tokens[k].start + 3
           /\ (k + 1 \in DOMAIN tokens
                 => tokens[k + 1].tok = RegisterOf(From(tokens[k].term, 3)))

\* C7: a CRLF is one T_EOL that advances the cursor by two characters, and
\* the CR of a CRLF is a delimiter, never part of the lexeme before it.
C7_CRLFIsLF ==
    \A k \in DOMAIN tokens :
        /\ (SourceAt(tokens[k].start) = CR /\ SourceAt(tokens[k].start + 1) = LF)
              => (tokens[k].tok = "T_EOL" /\ tokens[k].end = tokens[k].start + 2)
        /\ tokens[k].term # <<CR, LF>> => CR \notin Range(tokens[k].term)

\* C8: iterating the lexer over a source ends: pass 1 leaves its loop.
C8_LexerTerminates == <>(phase # "pass1")

\* C9: a step of the lexer returns a token or signals exhaustion; it raises
\* no other error, in pass 1 or under the parser.
C9_LexerNeverRaises ==
    /\ step.exc \in {"", "StopIteration"}
    /\ call.exc # "IndexError"

-----------------------------------------------------------------------------
(* Errors of Parser.line *)

\* the source ends in the middle of its last line: an instruction without
\* its line terminator, or a variable definition cut after the name or the =
CutMidLine ==
    /\ lines # <<>>
    /\ lines[Len(lines)].eol = <<>>
    /\ LET words == lines[Len(lines)].words
       IN  \/ IsInstructionLine(words)
           \/ /\ words # <<>> /\ IsName(words[1])
              /\ (Len(words) = 1 \/ (Len(words) = 2 /\ words[2] = <<"=">>))

\* the last call of line() has read into the last line of the source
ReadIntoLastLine ==
    /\ call.op = "line"
    /\ parser.lexer.pointer > LineStart(lines, Len(lines))

\* C11: when the source ends in the middle of a line, the call of line()
\* that reads that line raises the parser error; it does not return.
C11_CutLineRaises ==
    (CutMidLine /\ ReadIntoLastLine) => call.exc = "AssemblerParserError"

\* the symbol tables a caller hands to Parser(source, symbols): the default
\* empty one, one that holds V as the text the lexer stores, and one that
\* holds V already finalized to bytes
GivenTables ==
    { EmptyTable,
      SymbolSet(EmptyTable, <<"V">>, 0, "variable", StrVal(<<"$", "1", "0">>)),
      SymbolSet(EmptyTable, <<"V">>, 0, "variable", BytesVal(<<16>>)) }

\* Parser(source, symbols) constructed directly, without an assembler
DirectInit ==
    /\ \E n \in 0..MaxLines :
         \E ws \in [1..n -> LineForms], lay \in Layouts :
             lines = [i \in 1..n |->
                        [words |-> ws[i], gap |-> lay.gap,
                         eol |-> IF i = n /\ lay.cut THEN <<>> ELSE lay.eol]]
    /\ source = Render(lines)
    /\ phase = "ready"
    /\ lexer = NewLexer
    /\ step = NoStep
    /\ tokens = <<>>
    /\ symbol_table \in GivenTables
    /\ parser = NewParser
    /\ results = <<>>
    /\ call = NoCall
    /\ program = <<>>
    /\ registers = Registers
    /\ translation = NoTranslation
    /\ numbers = NoNumbers

DirectSpec == DirectInit /\ [][ParserLine]_vars

\* C12: a call of line() returns or raises the parser error, never another
\* kind of error, whatever symbol table the parser was given.
C12_LineErrorsAreTyped ==
    call.op = "line" => call.exc \in {"", "AssemblerParserError"}
-----------------------------------------------------------------------------
(* The callers of the translator: Parser(source).line() delivers the        *)
(* operands, Translate.<mnemonic>(mode, operands, registers) is then called *)
(* on a register file the caller has set up (test/unit/opcode_test.py)      *)

MaxTranslations == 2    \* translator calls on the operands of one line

\* the operand bytes written in the source lines
ImmediateBytes == { <<"0","5">>, <<"1","0">>, <<"F","F">> }

\* the accumulator values a caller sets up: U_Int8(n) for these n
AccValues == {0, 5, 10, 250, 255}

BranchNames ==
    { <<"B","C","C">>, <<"B","C","S">>, <<"B","E","Q">>, <<"B","G","E">>,
      <<"B","G","T">>, <<"B","H","I">>, <<"B","L","E">>, <<"B","L","S">>,
      <<"B","L","T">>, <<"B","M","I">>, <<"B","N","E">>, <<"B","P","L">>,
      <<"B","R","A">>, <<"B","V","C">>, <<"B","V","S">> }

\* the source lines that are translated
TranslateForms ==
    { << <<"A","B","A">> >>,
      << <<"C","P","X">>, <<"$","1","2","3","4">> >>,
      << <<"J","M","P">>, <<"$","1","0",",","X">> >>,
      << <<"J","S","R">>, <<"$","1","0",",","X">> >>,
      << <<"J","M","P">>, <<"$","1","2","3","4">> >>,
      << <<"L","D","A">>, <<"B">>, <<"#","$","1","0">> >>,
      << <<"B","N","E">>, <<"L">> >>,
      << <<"B","N","E">>, <<"1","0">> >>,
      << <<"B","N","E">>, <<"$","7","F">> >> }
    \cup { << m, r, <<"#","$">> \o b >> :
             m \in { <<"A","D","C">>, <<"A","D","D">> },
             r \in { <<"A">>, <<"B">> }, b \in ImmediateBytes }
    \cup { << m, r, <<"$","1","2","3","4">> >> :
             m \in { <<"A","D","D">> }, r \in { <<"A">>, <<"B">> } }
    \cup { << <<"S","T","A">>, r, <<"$","1","0",",","X">> >> :
             r \in { <<"A">>, <<"B">> } }
    \cup { << m, <<"$","1","0">> >> : m \in BranchNames }
    \cup { << <<"A","N","D">>, <<"A">>, <<"#","$","1","0">> >>,
           << <<"C","M","P">>, <<"B">>, <<"#","$","1","0">> >>,
           << <<"A","S","L">>, <<"A">> >>,
           << <<"C","L","R">>, <<"B">> >> }

\* parser = Parser(source); r = registers() with the accumulators and the
\* carry set up
TranslateInit ==
    /\ \E ws \in TranslateForms :
         lines = << [words |-> ws, gap |-> Spaces(1), eol |-> <<LF>>] >>
    /\ source = Render(lines)
    /\ phase = "ready"
    /\ lexer = NewLexer
    /\ step = NoStep
    /\ tokens = <<>>
    /\ symbol_table = EmptyTable
    /\ parser = NewParser
    /\ results = <<>>
    /\ call = NoCall
    /\ program = <<>>
    /\ \E a \in AccValues, b \in AccValues, carry \in BOOLEAN :
         registers = [Registers EXCEPT !.AccA = U_Int8(a), !.AccB = U_Int8(b),
                                       !.SR[1] = carry]
    /\ translation = NoTranslation
    /\ numbers = NoNumbers

\* instruction, operands = line; Translate.<mnemonic>(mode, operands, r);
\* an exception ends the run
TranslateCall ==
    /\ phase \in {"ready", "translated"}
    /\ results # <<>>
    /\ results[Len(results)].kind = "instruction"
    /\ translation.calls < MaxTranslations
    /\ \E i \in DOMAIN AddressingMode :
         \E r \in {Translate(results[Len(results)].mnemonic, AddressingMode[i],
                             results[Len(results)].operands, registers)} :
             /\ registers' = r.registers
             /\ translation' = [mnemonic |-> results[Len(results)].mnemonic,
                                addr_mode |-> AddressingMode[i],
                                ops |-> results[Len(results)].operands,
                                opcode |-> r.opcode, exc |-> r.exc,
                                before |-> registers,
                                body |-> Unwrapped(results[Len(results)].mnemonic,
                                                   AddressingMode[i],
                                                   results[Len(results)].operands,
                                                   registers).registers,
                                earlier |-> translation.earlier
                                              \cup ({translation.mnemonic} \ {None}),
                                calls |-> translation.calls + 1]
             /\ phase' = IF r.exc = "" THEN "translated" ELSE "failed"
    /\ UNCHANGED <<lines, source, lexer, step, tokens, symbol_table, parser,
                   results, call, program, numbers>>

TranslateNext == ParserLine \/ TranslateCall

TranslateSpec == TranslateInit /\ [][TranslateNext]_vars

\* C13: translating ABA in the mode an operand-less line resolves to (INH)
\* or in ACC returns the byte 1B, leaves AccA = (AccA + AccB) mod 256 and
\* leaves AccB as it was.
C13_AbaAddsAccumulators ==
    (translation.mnemonic = "T_ABA" /\ translation.addr_mode \in {"INH", "ACC"}) =>
        /\ translation.exc = ""
        /\ translation.opcode = <<27>>
        /\ registers.AccA.num =
             (translation.before.AccA.num + translation.before.AccB.num) % 256
        /\ registers.AccB.num = translation.before.AccB.num

\* the line that was translated, as written: its mnemonic, its accumulator
\* and the byte HH of its operand #$HH
Written == lines[1].words

WrittenByte == 16 * HexVal(Written[3][3]) + HexVal(Written[3][4])

IsImmediateLine(name) ==
    /\ Len(Written) = 3
    /\ Written[1] = name
    /\ Written[2] \in { <<"A">>, <<"B">> }
    /\ Len(Written[3]) = 4
    /\ SubSeq(Written[3], 1, 2) = <<"#", "$">>

\* C14: ADC R #$HH and ADD R #$HH translated in IMM mode give two bytes, the
\* opcode of the table (ADC 89/C9, ADD 8B/CB) and then HH, whatever the
\* accumulators and the carry hold.
C14_ImmediateEncoding ==
    /\ (translation.mnemonic = "T_ADC" /\ translation.addr_mode = "IMM"
            /\ IsImmediateLine(<<"A","D","C">>)) =>
          /\ translation.exc = ""
          /\ translation.opcode =
               << IF Written[2] = <<"A">> THEN 137 ELSE 201, WrittenByte >>
    /\ (translation.mnemonic = "T_ADD" /\ translation.addr_mode = "IMM"
            /\ IsImmediateLine(<<"A","D","D">>)) =>
          /\ translation.exc = ""
          /\ translation.opcode =
               << IF Written[2] = <<"A">> THEN 139 ELSE 203, WrittenByte >>

\* the rows of the opcode table of the 6800 for the mnemonics translated
\* here: <<mnemonic, mode, accumulator, opcode>>
OpcodeTable ==
    { <<"T_ADD", "IMM", <<"A">>, 139>>, <<"T_ADD", "IMM", <<"B">>, 203>>,
      <<"T_ADD", "DIR", <<"A">>, 155>>, <<"T_ADD", "DIR", <<"B">>, 219>>,
      <<"T_ADD", "EXT", <<"A">>, 187>>, <<"T_ADD", "EXT", <<"B">>, 251>>,
      <<"T_ADD", "IDX", <<"A">>, 171>>, <<"T_ADD", "IDX", <<"B">>, 235>>,
      <<"T_ADC", "IMM", <<"A">>, 137>>, <<"T_ADC", "IMM", <<"B">>, 201>>,
      <<"T_ADC", "DIR", <<"A">>, 153>>, <<"T_ADC", "DIR", <<"B">>, 217>>,
      <<"T_ADC", "EXT", <<"A">>, 185>>, <<"T_ADC", "EXT", <<"B">>, 249>>,
      <<"T_ADC", "IDX", <<"A">>, 169>>, <<"T_ADC", "IDX", <<"B">>, 233>>,
      <<"T_LDA", "IMM", <<"A">>, 134>>, <<"T_LDA", "IMM", <<"B">>, 198>>,
      <<"T_LDA", "DIR", <<"A">>, 150>>, <<"T_LDA", "DIR", <<"B">>, 214>>,
      <<"T_LDA", "EXT", <<"A">>, 182>>, <<"T_LDA", "EXT", <<"B">>, 246>>,
      <<"T_LDA", "IDX", <<"A">>, 166>>, <<"T_LDA", "IDX", <<"B">>, 230>>,
      <<"T_STA", "DIR", <<"A">>, 151>>, <<"T_STA", "DIR", <<"B">>, 215>>,
      <<"T_STA", "EXT", <<"A">>, 183>>, <<"T_STA", "EXT", <<"B">>, 247>>,
      <<"T_STA", "IDX", <<"A">>, 167>>, <<"T_STA", "IDX", <<"B">>, 231>>,
      <<"T_CPX", "IMM", <<>>, 140>>, <<"T_CPX", "DIR", <<>>, 156>>,
      <<"T_CPX", "EXT", <<>>, 188>>, <<"T_JMP", "EXT", <<>>, 126>>,
      <<"T_JMP", "IDX", <<>>, 110>>, <<"T_JSR", "EXT", <<>>, 189>>,
      <<"T_JSR", "IDX", <<>>, 173>>, <<"T_ABA", "INH", <<>>, 27>> }

\* the accumulator the line names (<<>> when it names none) and the mode its
\* operand is written in
WrittenAccumulator ==
    IF Len(Written) >= 2 /\ Written[2] \in { <<"A">>, <<"B">> } THEN Written[2]
    ELSE <<>>

WrittenMode ==
    LET operand == Written[Len(Written)]
    IN  IF Len(Written) = 1 THEN "INH"
        ELSE IF operand[1] = "#" THEN "IMM"
        ELSE IF operand[Len(operand)] = "X" THEN "IDX"
        ELSE IF Len(operand) = 5 THEN "EXT"
        ELSE "DIR"

Listed ==
    { row \in OpcodeTable :
        /\ row[1] = translation.mnemonic
        /\ row[2] = translation.addr_mode
        /\ row[3] = WrittenAccumulator }

\* C15: a line translated in the mode its operand is written in, for a
\* (mnemonic, mode, accumulator) the opcode table lists, yields bytes that
\* start with the listed opcode.
C15_TableOpcodeFirst ==
    (translation.calls > 0 /\ translation.addr_mode = WrittenMode) =>
        \A row \in Listed :
            /\ translation.exc = ""
            /\ translation.opcode # <<>>
            /\ translation.opcode[1] = row[4]

\* the opcodes of the branch instructions of the 6800
BranchOpcodes ==
    { <<"T_BCC", 36>>, <<"T_BCS", 37>>, <<"T_BEQ", 39>>, <<"T_BGE", 44>>,
      <<"T_BGT", 46>>, <<"T_BHI", 34>>, <<"T_BLE", 47>>, <<"T_BLS", 35>>,
      <<"T_BLT", 45>>, <<"T_BMI", 43>>, <<"T_BNE", 38>>, <<"T_BPL", 42>>,
      <<"T_BRA", 32>>, <<"T_BVC", 40>>, <<"T_BVS", 41>> }

\* the line is a branch with the displacement written $HH
IsDisplacementLine ==
    /\ Len(Written) = 2
    /\ Written[1] \in BranchNames
    /\ Len(Written[2]) = 3
    /\ Written[2][1] = "$"

\* C16: a branch translated in REL mode with the displacement operand the
\* parser delivered for $HH does not fail and yields two bytes, the branch
\* opcode and then HH.
C16_BranchEncoding ==
    (translation.calls > 0 /\ translation.addr_mode = "REL" /\ IsDisplacementLine) =>
        /\ translation.exc = ""
        /\ \E b \in BranchOpcodes :
             /\ b[1] = translation.mnemonic
             /\ translation.opcode =
                  << b[2], 16 * HexVal(Written[2][2]) + HexVal(Written[2][3]) >>

\* the arithmetic calls whose operand the line itself gives: ABA in INH or
\* ACC, ADD and ADC with an immediate operand in IMM
IsArithmeticCall ==
    /\ translation.calls > 0
    /\ translation.exc = ""
    /\ \/ translation.mnemonic = "T_ABA" /\ translation.addr_mode \in {"INH", "ACC"}
       \/ /\ translation.mnemonic \in {"T_ADD", "T_ADC"}
          /\ translation.addr_mode = "IMM"
          /\ IsImmediateLine(<<"A","D","D">>) \/ IsImmediateLine(<<"A","D","C">>)

\* the accumulator the instruction writes
DestinationName == IF WrittenAccumulator = <<"B">> THEN "AccB" ELSE "AccA"

\* what the instruction adds to it: AccB for ABA, the operand for ADD, the
\* operand with the carry prepended to its binary digits for ADC
Addend ==
    IF translation.mnemonic = "T_ABA" THEN translation.before.AccB.num
    ELSE IF translation.mnemonic = "T_ADC" /\ translation.before.SR[1]
    THEN WithCarry(WrittenByte)
    ELSE WrittenByte

\* the result of the instruction before it is masked to eight bits
PreMask == translation.before[DestinationName].num + Addend

\* C17: after a wrapped arithmetic call the flags describe that call alone:
\* Z is set iff the destination accumulator is 0, S iff its bit 7 is set, and
\* C iff the result before masking is outside 0 .. 255, whatever an earlier
\* call left behind.
C17_FlagsDescribeLastCall ==
    IsArithmeticCall =>
        /\ registers.SR[2] = (registers[DestinationName].num = 0)
        /\ registers.SR[3] = (registers[DestinationName].num >= 128)
        /\ registers.SR[1] = (PreMask > 255 \/ PreMask < 0)
-----------------------------------------------------------------------------
(* The callers of the fixed-width integers: an object is constructed from   *)
(* an integer and the operators +, -, += and -= are applied to it           *)
(* (test/unit/symbol_test.py)                                               *)

MaxOps == 3     \* operators applied to one object

\* the integers an object is constructed from
Constructed ==
    {-65537, -65536, -257, -256, -129, -128, -1, 0, 1, 5, 127, 128, 255, 256,
      257, 65535, 65536}

\* the right-hand operands
Amounts == {0, 1, 2, 5, 128, 256, 65536}

Classes == {"U_Int8", "Int8", "U_Int16"}

Construct(class, num) ==
    IF class = "U_Int8" THEN U_Int8(num)
    ELSE IF class = "Int8" THEN Int8(num)
    ELSE U_Int16(num)

NumbersInit ==
    /\ lines = <<>>
    /\ source = <<>>
    /\ phase = "numbers"
    /\ lexer = NewLexer
    /\ step = NoStep
    /\ tokens = <<>>
    /\ symbol_table = EmptyTable
    /\ parser = NewParser
    /\ results = <<>>
    /\ call = NoCall
    /\ program = <<>>
    /\ registers = Registers
    /\ translation = NoTranslation
    /\ \E class \in Classes, num \in Constructed :
         numbers = [NoNumbers EXCEPT !.class = class, !.made = num,
                                     !.self = Construct(class, num),
                                     !.before = Construct(class, num)]

\* x + of and x - of: the object the operator leaves behind and the int it
\* returns
Binary(op, of, r) ==
    /\ numbers.ops < MaxOps
    /\ numbers' = [numbers EXCEPT !.before = numbers.self, !.self = r.self,
                                  !.op = op, !.of = of, !.ret = r.ret,
                                  !.ops = @ + 1]
    /\ UNCHANGED <<lines, source, phase, lexer, step, tokens, symbol_table, parser,
                   results, call, program, registers, translation>>

\* x += of and x -= of: the object is rebound to what the operator returns
InPlace(op, of, self) ==
    /\ numbers.ops < MaxOps
    /\ numbers' = [numbers EXCEPT !.before = numbers.self, !.self = self,
                                  !.op = op, !.of = of, !.ret = 0,
                                  !.ops = @ + 1]
    /\ UNCHANGED <<lines, source, phase, lexer, step, tokens, symbol_table, parser,
                   results, call, program, registers, translation>>

U8Add ==
    /\ numbers.class = "U_Int8"
    /\ \E of \in Amounts : Binary("+", of, U_Int8__add__(numbers.self, of))

U8IAdd ==
    /\ numbers.class = "U_Int8"
    /\ \E of \in Amounts : InPlace("+=", of, U_Int8__iadd__(numbers.self, of))

U8Sub ==
    /\ numbers.class = "U_Int8"
    /\ \E of \in Amounts : Binary("-", of, U_Int8__sub__(numbers.self, of))

U8ISub ==
    /\ numbers.class = "U_Int8"
    /\ \E of \in Amounts : InPlace("-=", of, U_Int8__isub__(numbers.self, of))

I8Add ==
    /\ numbers.class = "Int8"
    /\ \E of \in Amounts : Binary("+", of, Int8__add__(numbers.self, of))

I8IAdd ==
    /\ numbers.class = "Int8"
    /\ \E of \in Amounts : InPlace("+=", of, Int8__iadd__(numbers.self, of))

I8Sub ==
    /\ numbers.class = "Int8"
    /\ \E of \in Amounts : Binary("-", of, Int8__sub__(numbers.self, of))

I8ISub ==
    /\ numbers.class = "Int8"
    /\ \E of \in Amounts : InPlace("-=", of, Int8__isub__(numbers.self, of))

U16Add ==
    /\ numbers.class = "U_Int16"
    /\ \E of \in Amounts : Binary("+", of, U_Int16__add__(numbers.self, of))

U16IAdd ==
    /\ numbers.class = "U_Int16"
    /\ \E of \in Amounts : InPlace("+=", of, U_Int16__iadd__(numbers.self, of))

U16Sub ==
    /\ numbers.class = "U_Int16"
    /\ \E of \in Amounts : Binary("-", of, U_Int16__sub__(numbers.self, of))

U16ISub ==
    /\ numbers.class = "U_Int16"
    /\ \E of \in Amounts : InPlace("-=", of, U_Int16__isub__(numbers.self, of))

NumbersNext ==
    \/ U8Add \/ U8IAdd \/ U8Sub \/ U8ISub
    \/ I8Add \/ I8IAdd \/ I8Sub \/ I8ISub
    \/ U16Add \/ U16IAdd \/ U16Sub \/ U16ISub

NumbersSpec == NumbersInit /\ [][NumbersNext]_vars

\* the stored value of an object, and the modulus of its class
NumOf(class, object) == IF class = "U_Int8" THEN object.num ELSE object

Modulus(class) == IF class = "U_Int16" THEN 65536 ELSE 256

\* value is exact reduced modulo m into 0 .. m - 1
Wraps(value, exact, m) == value \in 0..(m - 1) /\ (value - exact) % m = 0

\* the exact result of the last operator, on the stored value it found
Exact ==
    IF numbers.op \in {"+", "+="}
    THEN NumOf(numbers.class, numbers.before) + numbers.of
    ELSE NumOf(numbers.class, numbers.before) - numbers.of

\* what the last operator produced: the int it returned, or the stored
\* value of the object it rebound
Produced ==
    IF numbers.op \in {"+", "-"} THEN numbers.ret
    ELSE NumOf(numbers.class, numbers.self)

\* C18: the unsigned classes wrap modulo 2^N: the stored num of U_Int8(x) and
\* U_Int16(x) is x mod 2^N, within 0 .. 2^N - 1, and x + y, x - y, x += y
\* and x -= y produce the exact result reduced modulo 2^N.
C18_UnsignedWraps ==
    numbers.class \in {"U_Int8", "U_Int16"} =>
        /\ NumOf(numbers.class, numbers.self) \in 0..(Modulus(numbers.class) - 1)
        /\ numbers.ops = 0 =>
             Wraps(NumOf(numbers.class, numbers.self), numbers.made,
                   Modulus(numbers.class))
        /\ numbers.ops > 0 => Wraps(Produced, Exact, Modulus(numbers.class))
        /\ numbers.ops = 1 =>
             Wraps(Produced,
                   IF numbers.op \in {"+", "+="} THEN numbers.made + numbers.of
                   ELSE numbers.made - numbers.of,
                   Modulus(numbers.class))

\* 255 + 1 and 65535 + 1 wrap to 0, 0 - 1 wraps to the largest value
C18_Witness ==
    \/ /\ numbers.class = "U_Int8" /\ numbers.made = 255
       /\ numbers.op = "+" /\ numbers.of = 1 /\ numbers.ret = 0
    \/ /\ numbers.class = "U_Int16" /\ numbers.made = 65535
       /\ numbers.op = "+=" /\ numbers.of = 1 /\ numbers.self = 0
    \/ /\ numbers.class = "U_Int16" /\ numbers.made = 0
       /\ numbers.op = "-" /\ numbers.of = 1 /\ numbers.ret = 65535

\* value is the two's-complement reading of the low eight bits of exact
TwosComplement(value, exact) ==
    value \in (-128)..127 /\ (value - exact) % 256 = 0

\* C19: Int8(n).num and the result of every Int8 addition and subtraction
\* is the two's-complement reading of the low eight bits of the exact
\* result: within -128 .. 127 and congruent to it modulo 256.
C19_SignedTwosComplement ==
    numbers.class = "Int8" =>
        /\ numbers.ops = 0 => TwosComplement(numbers.self, numbers.made)
        /\ numbers.ops > 0 => TwosComplement(Produced, Exact)

\* C20: a U_Int8 keeps raw congruent to num modulo 256, after construction
\* and after any sequence of +, -, += and -=.
C20_RawCongruentToNum ==
    numbers.class = "U_Int8" => (numbers.self.raw - numbers.self.num) % 256 = 0
-----------------------------------------------------------------------------
(* Literals: Lexer(lexeme) and Parser.parse_immediate_value(lexeme) *)

MaxDigits == 5      \* characters of a lexeme after its prefix

\* a decimal digit, a hex letter of each case, a letter that is no hex digit,
\* and the carriage return, which _read_term does not take as a delimiter
LiteralChars == {"1", "F", "a", "G", CR}

LiteralPrefixes == { <<"#", "$">>, <<"$">>, <<"#">> }

Lexemes ==
    { p \o d : p \in LiteralPrefixes,
               d \in UNION { [1..k -> LiteralChars] : k \in 0..MaxDigits } }

\* Lexer(lexeme): the source is the lexeme alone
LiteralInit ==
    /\ \E lexeme \in Lexemes :
         /\ lines = << [words |-> <<lexeme>>, gap |-> <<>>, eol |-> <<>>] >>
         /\ source = lexeme
    /\ phase = "pass1"
    /\ lexer = NewLexer
    /\ step = NoStep
    /\ tokens = <<>>
    /\ symbol_table = EmptyTable
    /\ parser = NewParser
    /\ results = <<>>
    /\ call = NoCall
    /\ program = <<>>
    /\ registers = Registers
    /\ translation = NoTranslation
    /\ numbers = NoNumbers

\* Parser.parse_immediate_value(lexeme), a class method
ParseImmediateValue ==
    /\ call.op = "none"
    /\ \E r \in {parse_immediate_value(source)} :
           call' = [NoCall EXCEPT !.op = "parse_immediate_value",
                                  !.bytes = r.bytes,
                                  !.exc = IF r.ok THEN "" ELSE "ValueError"]
    /\ UNCHANGED <<lines, source, phase, lexer, step, tokens, symbol_table, parser,
                   results, program, machine>>

LiteralNext == LexNext \/ ParseImmediateValue

LiteralSpec == LiteralInit /\ [][LiteralNext]_vars

\* the lexeme is prefix followed by exactly 2 * bytes hex digits
IsLiteral(lexeme, prefix, bytes) ==
    /\ Len(lexeme) = Len(prefix) + 2 * bytes
    /\ Slice(lexeme, 0, Len(prefix)) = prefix
    /\ \A i \in (Len(prefix) + 1)..Len(lexeme) : IsHex(lexeme[i])

\* the bytes that the hex digits d denote, two digits to a byte
Denoted(d) == [i \in 1..(Len(d) \div 2) |-> 16 * HexVal(d[2 * i - 1]) + HexVal(d[2 * i])]

LiteralTokens ==
    {"T_IMM_UINT8", "T_IMM_UINT16", "T_DIR_ADDR_UINT8", "T_EXT_ADDR_UINT16"}

\* C21: the lexeme is classified T_IMM_UINT8 / T_IMM_UINT16 exactly when it is
\* #$ followed by the hex digits of one / two bytes, T_DIR_ADDR_UINT8 /
\* T_EXT_ADDR_UINT16 exactly when it is $ followed by the hex digits of one /
\* two bytes, and parse_immediate_value of a lexeme so classified returns the
\* bytes its digits denote.
C21_LiteralsAgree ==
    tokens # <<>> =>
        LET tok == tokens[1].tok
            lexeme == tokens[1].term
        IN  /\ tok = "T_IMM_UINT8" <=> IsLiteral(lexeme, <<"#", "$">>, 1)
            /\ tok = "T_IMM_UINT16" <=> IsLiteral(lexeme, <<"#", "$">>, 2)
            /\ tok = "T_DIR_ADDR_UINT8" <=> IsLiteral(lexeme, <<"$">>, 1)
            /\ tok = "T_EXT_ADDR_UINT16" <=> IsLiteral(lexeme, <<"$">>, 2)
            /\ (tok \in LiteralTokens /\ call.op = "parse_immediate_value") =>
                   /\ call.exc = ""
                   /\ call.bytes =
                        Denoted(From(lexeme, IF lexeme[1] = "#" THEN 2 ELSE 1))

\* the same, for the lexemes that hold no carriage return
C21_WithoutCR ==
    (\A i \in DOMAIN source : source[i] # CR) => C21_LiteralsAgree

-----------------------------------------------------------------------------
(* The lexer in context: Lexer(source) iterated to exhaustion *)

\* the words of a line, as written
LexForms ==
    { <<>>,
      << <<";","c">> >>,
      << <<"A","B","A">> >>,
      << <<"A","B","A">>, <<";","c">> >>,
      << <<"B","N","E">>, <<"$","1","0">> >>,
      << <<"L","D","A">>, <<"A">>, <<"$","1","0">> >>,
      << <<"B","N","E">>, <<"L">>, <<"$","1","0">> >>,
      << <<"B","N","E">>, <<"D","A","T","A">>, <<"$","1","0">> >>,
      << <<"B","R","A">>, <<"V">>, <<"=">>, <<"$","1","0">> >>,
      << <<"V">>, <<"=">>, <<"$","1","0">> >>,
      << <<"V">>, <<"=">> >>,
      << <<"L","D","A">>, <<"B">>, <<"V">> >>,
      << <<"L">>, <<"A","B","A">> >>,
      << <<"L","D","A">>, <<"B">>, <<"L">> >>,
      << <<"X","L">>, <<"A","B","A">> >> }

\* Lexer(source) on an LF-terminated source
LexInit ==
    /\ \E n \in 0..MaxLines :
         \E ws \in [1..n -> LexForms], g \in 1..MaxGap :
             lines = [i \in 1..n |->
                        [words |-> ws[i], gap |-> Spaces(g), eol |-> <<LF>>]]
    /\ source = Render(lines)
    /\ phase = "pass1"
    /\ lexer = NewLexer
    /\ step = NoStep
    /\ tokens = <<>>
    /\ symbol_table = EmptyTable
    /\ parser = NewParser
    /\ results = <<>>
    /\ call = NoCall
    /\ program = <<>>
    /\ registers = Registers
    /\ translation = NoTranslation
    /\ numbers = NoNumbers

LexSpec == LexInit /\ [][LexNext]_vars

\* the offset of the first character at or after pos that is neither a blank
\* nor part of a comment
RECURSIVE AfterBlanks(_)
AfterBlanks(pos) ==
    IF pos >= Len(source) THEN pos
    ELSE IF source[pos + 1] \in {SPC, TAB} THEN AfterBlanks(pos + 1)
    ELSE IF source[pos + 1] = ";"
    THEN LET rest == { q \in (pos + 1)..Len(source) :
                         q = Len(source) \/ source[q + 1] \in {LF, CR} }
         IN  CHOOSE q \in rest : \A o \in rest : q <= o
    ELSE pos

\* the characters from pos up to the next delimiter
RECURSIVE RunFrom(_)
RunFrom(pos) ==
    IF pos >= Len(source) \/ source[pos + 1] \in {",", TAB, CR, LF, SPC} THEN <<>>
    ELSE <<source[pos + 1]>> \o RunFrom(pos + 1)

\* the next lexeme of the line, looked for at pos
NextLexeme(pos) == RunFrom(AfterBlanks(pos))

IsMnemonicLexeme(lexeme) ==
    \/ lexeme \in MnemonicNames
    \/ Len(lexeme) = 4 /\ Slice(lexeme, 0, 3) \in MnemonicNames
                       /\ From(lexeme, 3) \in RegisterNames

\* the token emitted before token i; nothing is emitted before the first
Previous(i) == IF i = 1 THEN None ELSE tokens[i - 1].tok

\* C22: a lexeme that is no line end, register or mnemonic is classified
\* T_DISP_ADDR_INT8 exactly when the token emitted just before it is a branch
\* mnemonic, its text from the 4th character on is no register name and the
\* next lexeme is not =.
C22_DisplacementContext ==
    \A i \in DOMAIN tokens :
        LET lexeme == tokens[i].term
        IN  (lexeme \notin {<<LF>>, <<CR, LF>>} /\ lexeme \notin RegisterNames
                /\ ~IsMnemonicLexeme(lexeme)) =>
                (tokens[i].tok = "T_DISP_ADDR_INT8" <=>
                    /\ Previous(i) \in Branch_Mnemonics
                    /\ From(lexeme, 3) \notin RegisterNames
                    /\ NextLexeme(tokens[i].start + Len(lexeme)) # <<"=">>)

\* what the first _get_token of the next step returns for the lexeme it reads
FirstPass ==
    Bind(_read_term([lexer EXCEPT !.at = lexer.pointer]), LAMBDA r :
        IF r.term = <<>> THEN [lexeme |-> <<>>, tok |-> None, table |-> lexer.table]
        ELSE Bind(_get_token(_reset(r.lx), r.term), LAMBDA t :
                [lexeme |-> r.term,
                 tok |-> IF t.exc = "" THEN t.tok ELSE None,
                 table |-> t.lx.table]))

\* the lexeme names a variable whose stored value is text
NamesTextVariable(lexeme, table) ==
    /\ lexeme \in DOMAIN table
    /\ table[lexeme].type = "variable"
    /\ table[lexeme].value.is = "str"

\* the token kind of a text: a literal of one or two bytes, or nothing known
TextKind(text) ==
    IF IsLiteral(text, <<"$">>, 1) THEN "T_DIR_ADDR_UINT8"
    ELSE IF IsLiteral(text, <<"$">>, 2) THEN "T_EXT_ADDR_UINT16"
    ELSE IF IsLiteral(text, <<"#", "$">>, 1) THEN "T_IMM_UINT8"
    ELSE IF IsLiteral(text, <<"#", "$">>, 2) THEN "T_IMM_UINT16"
    ELSE "T_UNKNOWN"

\* what a step returns for a lexeme that matched no classification
Fallback(f) ==
    IF NamesTextVariable(f.lexeme, f.table)
    THEN LET text == f.table[f.lexeme].value.v
         IN  /\ step'.exc = ""
             /\ step'.tok = TextKind(text)
             /\ step'.tok # "T_UNKNOWN" => lexer'.yylex.data = text
    ELSE step'.exc = "" /\ step'.tok = "T_UNKNOWN"

\* C23: a step whose lexeme matches no classification returns, when the
\* lexeme names a variable whose stored value is text, the token kind of that
\* text with the text as payload, and T_UNKNOWN for every other lexeme (not in
\* the table, a label, or not defined yet).
C23_VariableExpansion ==
    [][\A f \in {FirstPass} : f.tok = "T_UNKNOWN" => Fallback(f)]_vars

\* the same, for the variables whose stored text is not empty
C23_NonEmptyText ==
    [][\A f \in {FirstPass} :
          (f.tok = "T_UNKNOWN"
             /\ (NamesTextVariable(f.lexeme, f.table) => f.table[f.lexeme].value.v # <<>>))
          => Fallback(f)]_vars


\* the number of indices of s that satisfy Test
Count(s, Test(_)) == Cardinality({ i \in DOMAIN s : Test(s[i]) })

\* every token of the source is on record
AllRecorded == phase = "ready" /\ Len(tokens) < MaxTokens

\* C24: the lexer emits one T_EOL per LF of the source, and no token of
\* another kind takes a line terminator with it.
C24_OneEOLPerLF ==
    /\ \A i \in DOMAIN tokens :
           tokens[i].tok # "T_EOL" =>
               \A p \in tokens[i].start..(tokens[i].end - 1) : SourceAt(p) # LF
    /\ AllRecorded =>
           Count(tokens, LAMBDA t : t.tok = "T_EOL") = Count(source, LAMBDA c : c = LF)

\* the same, for the sources in which no line after the first begins with X
C24_NoLineBeginsWithX ==
    (\A p \in 1..(Len(source) - 1) : ~(source[p] = LF /\ source[p + 1] = "X"))
        => C24_OneEOLPerLF

-----------------------------------------------------------------------------
(* Lexer._peek_next called on the lexer between two steps *)

\* peek = lexer._peek_next()
PeekNext ==
    /\ phase = "pass1"
    /\ \E p \in {_peek_next(lexer)} :
           /\ lexer' = p.lx
           /\ step' = [term |-> p.term, tok |-> None, exc |-> "",
                       from |-> lexer.pointer]
    /\ call' = [NoCall EXCEPT !.op = "_peek_next"]
    /\ UNCHANGED <<lines, source, phase, tokens, symbol_table, parser, results,
                   program, machine>>

PeekNextStep == LexNext \/ PeekNext

PeekSpec == LexInit /\ [][PeekNextStep]_vars

\* C25: a call of _peek_next leaves the cursor, the last token, the pending
\* definitions and the symbol table as they were, and returns the next run of
\* non-delimiter characters after any whitespace and comments.
C25_PeekLeavesLexer ==
    [][PeekNext => /\ lexer' = lexer
                   /\ step'.term = NextLexeme(lexer.pointer)]_vars

\* the same, without the cursor
C25_AllButCursor ==
    [][PeekNext => /\ [lexer' EXCEPT !.pointer = lexer.pointer] = lexer
                   /\ step'.term = NextLexeme(lexer.pointer)]_vars

-----------------------------------------------------------------------------
(* Frame conditions of the translator *)

\* ADD R #$HH or ADC R #$HH translated in immediate mode
IsImmediateAddition ==
    /\ translation.calls > 0
    /\ translation.mnemonic \in {"T_ADD", "T_ADC"}
    /\ translation.addr_mode = "IMM"
    /\ IsImmediateLine(<<"A","D","D">>) \/ IsImmediateLine(<<"A","D","C">>)

\* the accumulator the instruction does not name
OtherName == IF DestinationName = "AccB" THEN "AccA" ELSE "AccB"

\* C26: an immediate ADD or ADC updates the accumulator its trailing register
\* names and leaves the other accumulator as it was.
C26_OnlySelectedAccumulator ==
    IsImmediateAddition =>
        /\ registers[OtherName].num = translation.before[OtherName].num
        /\ translation.exc = "" =>
               registers[DestinationName].num =
                   (translation.before[DestinationName].num + Addend) % 256

\* the same, for the instructions other than ADC B
C26_ExceptAdcB ==
    ~(translation.mnemonic = "T_ADC" /\ DestinationName = "AccB")
        => C26_OnlySelectedAccumulator

-----------------------------------------------------------------------------
(* The translator on the (mnemonic, mode) pairs the opcode table leaves     *)
(* empty                                                                    *)

\* the pairs without an opcode in the rows ADD, AND, CMP, CPX, ASL and CLR
NoOpcode ==
    ({"T_ADD", "T_AND", "T_CMP"} \X {"ACC", "INH"})
    \cup ({"T_CPX"} \X {"IDX", "ACC", "INH"})
    \cup ({"T_ASL", "T_CLR"} \X {"IMM", "DIR", "EXT", "IDX", "INH"})

\* C27: a translator operation called with a mode in which its mnemonic has
\* no opcode raises and leaves the register file as it was, and no call
\* returns an empty byte sequence.
C27_UndefinedModeRaises ==
    translation.calls > 0 =>
        /\ <<translation.mnemonic, translation.addr_mode>> \in NoOpcode =>
              (translation.exc # "" /\ registers = translation.before)
        /\ translation.exc = "" => translation.opcode # <<>>

\* the operation itself leaves the register file alone on these pairs
C27_BodyKeepsRegisters ==
    (translation.calls > 0
        /\ <<translation.mnemonic, translation.addr_mode>> \in NoOpcode) =>
        translation.body = translation.before

-----------------------------------------------------------------------------
(* Sequences of translator calls on one register file: the caller parses a  *)
(* line for each call and passes its operands and the mode the line has     *)
(* (test/unit/opcode_test.py)                                               *)

\* the values of X and SP a caller sets up: U_Int16(n) for these n
PointerValues == {0, 1, 65534, 65535}

\* the accumulator values a caller sets up: U_Int8(n) for these n
MachineValues == {0, 5, 255}

\* the operands of 'INC A', 'ADD A #$10' as Parser.line() delivers them
RegisterOperand == << [token |-> "T_A", data |-> <<"A">>] >>

ImmediateOperands ==
    << [token |-> "T_IMM_UINT8", data |-> <<"#","$","1","0">>],
       [token |-> "T_A", data |-> <<"A">>] >>

FlagMnemonics == {"T_CLC", "T_SEC", "T_CLV", "T_SEV", "T_CLI", "T_SEI"}

PointerMnemonics == {"T_INX", "T_DEX", "T_INS", "T_DES", "T_TSX", "T_TXS"}

\* the lines the calls translate: each with its mode
MachineOps ==
    { [mnemonic |-> m, addr_mode |-> "INH", ops |-> <<>>] :
        m \in FlagMnemonics \cup PointerMnemonics \cup {"T_TAB", "T_TBA", "T_ABA"} }
    \cup { [mnemonic |-> m, addr_mode |-> "ACC", ops |-> RegisterOperand] :
             m \in {"T_INC", "T_DEC"} }
    \cup { [mnemonic |-> "T_ADD", addr_mode |-> "IMM", ops |-> ImmediateOperands] }

\* the calls of one run work on the flags, on X and SP or on the accumulators
Family(mnemonic) ==
    IF mnemonic \in FlagMnemonics THEN "flags"
    ELSE IF mnemonic \in PointerMnemonics THEN "pointers"
    ELSE "accumulators"

\* r = registers() with the accumulators, X, SP and the flags set up
MachineInit ==
    /\ lines = <<>>
    /\ source = <<>>
    /\ phase = "ready"
    /\ lexer = NewLexer
    /\ step = NoStep
    /\ tokens = <<>>
    /\ symbol_table = EmptyTable
    /\ parser = NewParser
    /\ results = <<>>
    /\ call = NoCall
    /\ program = <<>>
    /\ \E a \in MachineValues, b \in MachineValues,
          x \in PointerValues, sp \in PointerValues, flag \in BOOLEAN :
         registers = [Registers EXCEPT !.AccA = U_Int8(a), !.AccB = U_Int8(b),
                                       !.X = U_Int16(x), !.SP = U_Int16(sp),
                                       !.SR = <<flag, flag, flag, flag, flag, flag>>]
    /\ translation = NoTranslation
    /\ numbers = NoNumbers

\* Translate.<mnemonic>(mode, operands, r) on the register file the earlier
\* calls left; an exception ends the run
MachineCall ==
    /\ translation.calls < MaxTranslations
    /\ translation.exc = ""
    /\ \E op \in MachineOps :
         /\ translation.calls = 0 \/ Family(op.mnemonic) = Family(translation.mnemonic)
         /\ \E r \in {Translate(op.mnemonic, op.addr_mode, op.ops, registers)} :
              /\ registers' = r.registers
              /\ translation' = [mnemonic |-> op.mnemonic,
                                 addr_mode |-> op.addr_mode,
                                 ops |-> op.ops,
                                 opcode |-> r.opcode, exc |-> r.exc,
                                 before |-> registers,
                                 body |-> Unwrapped(op.mnemonic, op.addr_mode,
                                                    op.ops, registers).registers,
                                 earlier |-> translation.earlier
                                               \cup ({translation.mnemonic} \ {None}),
                                 calls |-> translation.calls + 1]
    /\ UNCHANGED <<lines, source, phase, lexer, step, tokens, symbol_table,
                   parser, results, call, program, numbers>>

MachineSpec == MachineInit /\ [][MachineCall]_vars

\* the bit a flag mnemonic declares, as a position of SR[1] .. SR[6], and
\* the value it writes
DeclaredBit(mnemonic) ==
    IF mnemonic \in {"T_CLC", "T_SEC"} THEN 1
    ELSE IF mnemonic \in {"T_CLV", "T_SEV"} THEN 4
    ELSE 5

WrittenValue(mnemonic) == mnemonic \in {"T_SEC", "T_SEV", "T_SEI"}

\* the register file without the status register
Besides(regs) == [n \in {"AccA", "AccB", "X", "SP", "PC"} |-> regs[n]]

\* C28: the body of a flag mnemonic writes its declared bit (C = bit 0,
\* O = bit 3, I = bit 4) with its value and leaves the other five bits, the
\* accumulators, X and SP as they were.
C28_OneDeclaredBit ==
    (translation.calls > 0 /\ translation.mnemonic \in FlagMnemonics) =>
        /\ translation.exc = ""
        /\ translation.body.SR =
             [translation.before.SR EXCEPT ![DeclaredBit(translation.mnemonic)] =
                                              WrittenValue(translation.mnemonic)]
        /\ Besides(translation.body) = Besides(translation.before)

\* the same for the carry and the interrupt mnemonics alone
C28_CarryAndInterrupt ==
    translation.mnemonic \notin {"T_CLV", "T_SEV"} => C28_OneDeclaredBit

\* X and SP after the call as 16-bit wrapping arithmetic gives them
Wrapped(mnemonic, before) ==
    [X  |-> CASE mnemonic = "T_INX" -> (before.X + 1) % 65536
              [] mnemonic = "T_DEX" -> (before.X - 1) % 65536
              [] mnemonic = "T_TSX" -> (before.SP + 1) % 65536
              [] OTHER -> before.X,
     SP |-> CASE mnemonic = "T_INS" -> (before.SP + 1) % 65536
              [] mnemonic = "T_DES" -> (before.SP - 1) % 65536
              [] mnemonic = "T_TXS" -> (before.X - 1) % 65536
              [] OTHER -> before.SP]

\* C29: after any sequence of INX, DEX, INS, DES, TSX and TXS on a register
\* file whose X and SP start as 16-bit values, X and SP are in 0 .. 65535
\* and each call has changed them as wrapping arithmetic modulo 65536 says.
C29_PointersWrap ==
    (translation.calls > 0 /\ translation.mnemonic \in PointerMnemonics) =>
        /\ translation.exc = ""
        /\ registers.X \in 0..65535
        /\ registers.SP \in 0..65535
        /\ registers.X = Wrapped(translation.mnemonic, translation.before).X
        /\ registers.SP = Wrapped(translation.mnemonic, translation.before).SP

\* the same as long as no transfer between X and SP came earlier
C29_WithoutEarlierTransfer ==
    translation.earlier \cap {"T_TSX", "T_TXS"} = {} => C29_PointersWrap

\* the mnemonics of the lines INC A, DEC A, ADD A #$10 and ABA: they modify
\* AccA only
OnlyAccA == {"T_INC", "T_DEC", "T_ADD", "T_ABA"}

\* C30: TAB (TBA) copies the value of AccA to AccB (of AccB to AccA), and an
\* INC A, DEC A, ADD A #$HH or ABA that comes after a TAB or TBA leaves the
\* value of AccB as it was.
C30_TransfersCopyValue ==
    translation.calls > 0 =>
        /\ translation.mnemonic = "T_TAB" =>
              /\ registers.AccB.num = translation.before.AccA.num
              /\ registers.AccA.num = translation.before.AccA.num
        /\ translation.mnemonic = "T_TBA" =>
              /\ registers.AccA.num = translation.before.AccB.num
              /\ registers.AccB.num = translation.before.AccB.num
        /\ (translation.mnemonic \in OnlyAccA
               /\ translation.earlier \cap {"T_TAB", "T_TBA"} # {}) =>
              registers.AccB.num = translation.before.AccB.num

\* the transfers themselves, and the later operations whenever they add
\* nothing to AccA
C30_UntilAccAChanges ==
    (translation.mnemonic \in OnlyAccA
        => registers.AccA.num = translation.before.AccA.num)
    => C30_TransfersCopyValue


====
